---- MODULE Spec2Model ----
(***************************************************************************)
(* A model of the ShotIQ API server (app/main.py): the expiring in-process *)
(* cache, the roster snapshot, the stats precompute cache, the local       *)
(* aggregation fallback and the read-through request handlers.             *)
(*                                                                         *)
(* Python strings are modelled as sequences of one-character strings, so   *)
(* that cache keys are built by real concatenation.  Time is one variable, *)
(* clock, the seconds elapsed since the process started: monotonic() is    *)
(* clock and time() is Epoch + clock.                                      *)
(***************************************************************************)
EXTENDS Integers, Sequences, FiniteSets, TLC

VARIABLES
    clock,          \* seconds since process start
    cache,          \* _cache: key -> [expires_at, data]
    players_cache,  \* _players_cache: [data, fetched_at]
    stats_cache,    \* _stats_cache: player name -> precomputed summary
    cache_file,     \* CACHE_FILE: [exists, corrupt (not parseable), data]
    tbl,            \* backing store: the shots table per player, <<[name, attempts, made]>>
    db,             \* backing store: the shots table row by row
    phase,          \* "boot" until _startup_warm has run, then "serving"
    warm,           \* the warm-up thread: "off", "pending" (started), "done",
                    \* "failed" (ended at the roster call)
    nops,           \* number of operations run so far
    resp,           \* what the last operation returned (or raised)
    calls,          \* backing-store calls made by the last handler, in order
    lastSet,        \* history: key -> the arguments of its latest cache_set
    lock,           \* _stats_cache_lock: "free" or the thread holding it
    thr             \* the threads run step by step: their position and locals

vars == <<clock, cache, players_cache, stats_cache, cache_file, tbl, db, phase, warm,
          nops, resp, calls, lastSet, lock, thr>>

\* the in-memory snapshots and the durable file
memV == <<players_cache, stats_cache, cache_file>>
\* the backing store
dataV == <<tbl, db>>
\* where the process is
procV == <<phase, warm, lock, thr>>

----------------------------------------------------------------------------
(* Python values *)

\* None, as a record so that it compares with any payload
None == [kind |-> "None"]

\* the empty dict / the empty function
EmptyMap == [k \in {} |-> None]

\* the request threads that run get_player step by step
Readers == {"r1", "r2"}

\* no thread is under way: the warm-up thread has not started and no request
\* is being handled
NoThreads ==
    [wpc |-> "start", cache_out |-> EmptyMap, preSwap |-> EmptyMap,
     rd |-> [r \in Readers |->
                [pc |-> "idle", name |-> <<>>, cached_stats |-> [kind |-> "None"],
                 data |-> EmptyMap, seen |-> EmptyMap, when |-> "never"]]]

\* str(n) for one decimal digit
Digit(d) == <<"0", "1", "2", "3", "4", "5", "6", "7", "8", "9">>[d + 1]

RECURSIVE NatToStr(_)
NatToStr(n) == IF n < 10 THEN <<Digit(n)>> ELSE NatToStr(n \div 10) \o <<Digit(n % 10)>>

\* str(n) of an int
IntToStr(n) == IF n < 0 THEN <<"-">> \o NatToStr(0 - n) ELSE NatToStr(n)

\* a string literal of the source, one character per element
RECURSIVE JoinStr(_, _)
JoinStr(parts, sep) ==
    IF parts = <<>> THEN <<>>
    ELSE IF Len(parts) = 1 THEN Head(parts)
    ELSE Head(parts) \o sep \o JoinStr(Tail(parts), sep)

----------------------------------------------------------------------------
(* The expiring cache: cache_get / cache_set *)

monotonic == clock

\* cache_get with the expiry test dropped: an entry never expires
cache_get_NoExpiry(c, key, now) ==
    IF key \notin DOMAIN c THEN [data |-> None, store |-> c]
    ELSE [data |-> c[key].data, store |-> c]

\* cache_get sweeping every expired entry out of the store
cache_get_Sweep(c, key, now) ==
    IF key \notin DOMAIN c THEN [data |-> None, store |-> c]
    ELSE IF now > c[key].expires_at
         THEN [data |-> None,
               store |-> [k \in {j \in DOMAIN c : ~(now > c[j].expires_at)} |-> c[k]]]
         ELSE [data |-> c[key].data, store |-> c]

\* cache_get(key): the value returned and the store it leaves
cache_get(c, key, now) ==
    IF key \notin DOMAIN c
    THEN [data |-> None, store |-> c]
    ELSE IF now > c[key].expires_at
         THEN [data |-> None, store |-> [k \in DOMAIN c \ {key} |-> c[k]]]
         ELSE [data |-> c[key].data, store |-> c]

\* cache_set(key, data, ttl_seconds): the store it leaves
cache_set(c, key, data, ttl_seconds, now) ==
    [k \in DOMAIN c \cup {key} |->
        IF k = key THEN [expires_at |-> now + ttl_seconds, data |-> data] ELSE c[k]]

----------------------------------------------------------------------------
(* Specification SpecCache: the cache store driven directly *)

MaxCacheClock == 4
MaxTtl == 2

CacheKeys == {<<"k", "1">>, <<"k", "2">>}
CacheVals == {[kind |-> "val", v |-> 1], [kind |-> "val", v |-> 2]}

InitCache ==
    /\ clock = 0
    /\ cache = EmptyMap
    /\ players_cache = [data |-> <<>>, fetched_at |-> 0]
    /\ stats_cache = EmptyMap
    /\ cache_file = [exists |-> FALSE, corrupt |-> FALSE, data |-> EmptyMap]
    /\ tbl = <<>>
    /\ db = <<>>
    /\ phase = "serving"
    /\ warm = "off"
    /\ lock = "free"
    /\ thr = NoThreads
    /\ nops = 0
    /\ resp = [op |-> "init"]
    /\ calls = <<>>
    /\ lastSet = EmptyMap

DoCacheSet ==
    \E k \in CacheKeys, v \in CacheVals, ttl \in 0..MaxTtl :
        /\ cache' = cache_set(cache, k, v, ttl, monotonic)
        /\ lastSet' = [x \in DOMAIN lastSet \cup {k} |->
                          IF x = k THEN [at |-> clock, ttl |-> ttl, data |-> v]
                          ELSE lastSet[x]]
        /\ resp' = [op |-> "cache_set", key |-> k]
        /\ UNCHANGED <<clock, memV, dataV, procV, nops, calls>>

DoCacheGet ==
    \E k \in CacheKeys :
        LET r == cache_get(cache, k, monotonic) IN
        /\ cache' = r.store
        /\ resp' = [op |-> "cache_get", key |-> k, data |-> r.data, at |-> clock,
                    before |-> cache]
        /\ UNCHANGED <<clock, memV, dataV, procV, nops, calls, lastSet>>

CacheTick ==
    /\ clock < MaxCacheClock
    /\ clock' = clock + 1
    /\ UNCHANGED <<cache, memV, dataV, procV, nops, resp, calls, lastSet>>

NextCache == DoCacheSet \/ DoCacheGet \/ CacheTick

SpecCache == InitCache /\ [][NextCache]_vars

\* C1: cache_set(k, v, ttl) with ttl > 0 followed by cache_get(k) with no time
\* elapsed returns v; a cache_get(k) made more than ttl seconds after the
\* latest cache_set of k returns None.
C1_SetThenGet ==
    (resp.op = "cache_get" /\ resp.key \in DOMAIN lastSet) =>
        LET s == lastSet[resp.key] IN
        /\ (s.ttl > 0 /\ resp.at = s.at) => resp.data = s.data
        /\ (s.ttl > 0 /\ resp.at > s.at + s.ttl) => resp.data = None

\* C1 witness: a get of a key set with ttl > 0, made more than ttl seconds
\* later, that found the entry still stored and returned None
C1_Witness ==
    /\ resp.op = "cache_get"
    /\ resp.key \in DOMAIN lastSet
    /\ lastSet[resp.key].ttl > 0
    /\ resp.at > lastSet[resp.key].at + lastSet[resp.key].ttl
    /\ resp.data = None
    /\ resp.key \in DOMAIN resp.before

----------------------------------------------------------------------------
(* Specification SpecCacheRace: cache_get run statement by statement by two
   request threads, next to cache_set *)

MaxRaceSets == 2

\* no cache_get is under way
NoGetters ==
    [g \in Readers |-> [pc |-> "idle", key |-> <<>>, item |-> None]]

InitCacheRace ==
    /\ clock = 0
    /\ cache = EmptyMap
    /\ players_cache = [data |-> <<>>, fetched_at |-> 0]
    /\ stats_cache = EmptyMap
    /\ cache_file = [exists |-> FALSE, corrupt |-> FALSE, data |-> EmptyMap]
    /\ tbl = <<>>
    /\ db = <<>>
    /\ phase = "serving"
    /\ warm = "off"
    /\ lock = "free"
    /\ thr = NoGetters
    /\ nops = 0
    /\ resp = [op |-> "init"]
    /\ calls = <<>>
    /\ lastSet = EmptyMap

\* item = _cache.get(key); if not item: return None
G_Lookup(g) ==
    /\ thr[g].pc = "idle"
    /\ \E k \in CacheKeys :
        thr' = [thr EXCEPT ![g] =
                   IF k \in DOMAIN cache
                   THEN [pc |-> "test", key |-> k, item |-> cache[k]]
                   ELSE [pc |-> "idle", key |-> <<>>, item |-> None]]
    /\ UNCHANGED <<clock, cache, memV, dataV, phase, warm, lock, nops, resp, calls, lastSet>>

\* if monotonic() > expires_at: ... else: return data
G_Test(g) ==
    /\ thr[g].pc = "test"
    /\ thr' = [thr EXCEPT ![g] =
                  IF monotonic > thr[g].item.expires_at
                  THEN [thr[g] EXCEPT !.pc = "pop"]
                  ELSE [pc |-> "idle", key |-> <<>>, item |-> None]]
    /\ UNCHANGED <<clock, cache, memV, dataV, phase, warm, lock, nops, resp, calls, lastSet>>

\* _cache.pop(key, None); return None
G_Pop(g) ==
    /\ thr[g].pc = "pop"
    /\ cache' = [k \in DOMAIN cache \ {thr[g].key} |-> cache[k]]
    /\ thr' = [thr EXCEPT ![g] = [pc |-> "idle", key |-> <<>>, item |-> None]]
    /\ resp' = [op |-> "cache_pop", key |-> thr[g].key]
    /\ UNCHANGED <<clock, memV, dataV, phase, warm, lock, nops, calls, lastSet>>

\* cache_set(key, data, ttl_seconds) by a thread that is not inside cache_get
G_Set(g) ==
    /\ thr[g].pc = "idle"
    /\ nops < MaxRaceSets
    /\ \E k \in CacheKeys, v \in CacheVals, ttl \in 0..MaxTtl :
        /\ cache' = cache_set(cache, k, v, ttl, monotonic)
        /\ lastSet' = [x \in DOMAIN lastSet \cup {k} |->
                          IF x = k THEN [at |-> clock, ttl |-> ttl, data |-> v]
                          ELSE lastSet[x]]
        /\ resp' = [op |-> "cache_set", key |-> k]
    /\ nops' = nops + 1
    /\ UNCHANGED <<clock, memV, dataV, procV, calls>>

Getter(g) == G_Lookup(g) \/ G_Test(g) \/ G_Pop(g) \/ G_Set(g)

NextCacheRace == CacheTick \/ \E g \in Readers : Getter(g)

SpecCacheRace == InitCacheRace /\ [][NextCacheRace]_vars

----------------------------------------------------------------------------
(* Python helpers used by the handlers *)

Min(a, b) == IF a < b THEN a ELSE b
Max(a, b) == IF a > b THEN a ELSE b

\* a Python list held where None may also be held
PyList(items) == [kind |-> "list", items |-> items]

\* s[:n]
Take(s, n) ==
    IF n >= 0 THEN SubSeq(s, 1, Min(n, Len(s)))
    ELSE SubSeq(s, 1, Max(0, Len(s) + n))

UpperChars == <<"A", "B", "C", "D", "E", "F", "G", "H", "I", "J", "K", "L", "M",
                "N", "O", "P", "Q", "R", "S", "T", "U", "V", "W", "X", "Y", "Z">>
LowerChars == <<"a", "b", "c", "d", "e", "f", "g", "h", "i", "j", "k", "l", "m",
                "n", "o", "p", "q", "r", "s", "t", "u", "v", "w", "x", "y", "z">>

LowerChar(ch) ==
    IF \E i \in 1..26 : UpperChars[i] = ch
    THEN LowerChars[CHOOSE i \in 1..26 : UpperChars[i] = ch]
    ELSE ch

\* str.lower()
Lower(s) == [i \in 1..Len(s) |-> LowerChar(s[i])]

\* sub in s
Contains(sub, s) ==
    \E i \in 0..(Len(s) - Len(sub)) : SubSeq(s, i + 1, i + Len(sub)) = sub

\* str.strip() == ""
IsBlank(s) == \A i \in 1..Len(s) : s[i] = " "

\* round(made / attempts, 3) truncating instead of rounding
Round3_Truncate(made, attempts) == (1000 * made) \div attempts

\* round(made / attempts, 3), in thousandths.  Python rounds the double nearest
\* to the quotient half-to-even; the quotient is an exact tie only when
\* attempts is a multiple of 16.
Round3(made, attempts) ==
    LET q == (1000 * made) \div attempts
        r2 == 2 * ((1000 * made) % attempts)
    IN  IF r2 < attempts THEN q
        ELSE IF r2 > attempts THEN q + 1
        ELSE IF q % 2 = 0 THEN q ELSE q + 1

\* sorted(items, key=..., reverse=True) on items paired with their key:
\* descending, equal keys keep their order
RECURSIVE InsertDesc_TiesFirst(_, _)
InsertDesc_TiesFirst(sorted, x) ==
    IF sorted = <<>> THEN <<x>>
    ELSE IF Head(sorted).k > x.k
    THEN <<Head(sorted)>> \o InsertDesc_TiesFirst(Tail(sorted), x)
    ELSE <<x>> \o sorted

RECURSIVE InsertDesc(_, _)
InsertDesc(sorted, x) ==
    IF sorted = <<>> THEN <<x>>
    ELSE IF Head(sorted).k >= x.k THEN <<Head(sorted)>> \o InsertDesc(Tail(sorted), x)
    ELSE <<x>> \o sorted

RECURSIVE SortDescFrom(_, _)
SortDescFrom(done, todo) ==
    IF todo = <<>> THEN done
    ELSE SortDescFrom(InsertDesc(done, Head(todo)), Tail(todo))

SortDesc(pairs) == SortDescFrom(<<>>, pairs)

\* [x for x in s if Keep(x)]
RECURSIVE SelectIdx(_, _)
SelectIdx(s, keep) ==
    IF s = <<>> THEN <<>>
    ELSE (IF 1 \in keep THEN <<Head(s)>> ELSE <<>>)
         \o SelectIdx(Tail(s), {i - 1 : i \in keep \ {1}})

----------------------------------------------------------------------------
(* The backing store's roster aggregation, and the roster snapshot *)

\* time()
Epoch == 100000
time == Epoch + clock

\* a failed backing-store call raises this
TransportError == [kind |-> "TransportError"]

\* one entry of get_players_with_stats
RosterEntry(g) == [name |-> g.name, total_shots |-> g.attempts,
                   fg_pct |-> Round3(g.made, g.attempts)]

SortByTotalShots(entries) ==
    LET pairs == [i \in 1..Len(entries) |-> [k |-> entries[i].total_shots, v |-> entries[i]]]
        sorted == SortDesc(pairs)
    IN  [i \in 1..Len(sorted) |-> sorted[i].v]

\* rpc get_players_with_stats(search_term, min_shot_count, result_limit):
\* the players with at least min_shot_count shots whose name contains
\* search_term (case-insensitively), most shots first, at most result_limit
rpc_get_players_with_stats(tb, search_term, min_shot_count, result_limit) ==
    LET keep == {i \in 1..Len(tb) :
                    /\ tb[i].attempts >= min_shot_count
                    /\ tb[i].attempts >= 1
                    /\ Contains(Lower(search_term), Lower(tb[i].name))}
        kept == SelectIdx(tb, keep)
        entries == [i \in 1..Len(kept) |-> RosterEntry(kept[i])]
    IN  Take(SortByTotalShots(entries), result_limit)

\* _load_players_cache(min_shot_count, limit): the snapshot it leaves
load_players_cache(pc, tb, min_shot_count, limit, ok) ==
    IF ~ok THEN pc
    ELSE LET data == rpc_get_players_with_stats(tb, <<>>, min_shot_count, limit)
         IN  IF data # <<>> THEN [data |-> data, fetched_at |-> time] ELSE pc

\* a filter that keeps the entries with at most min_shots shots
roster_filter_AtMost(data, search, min_shots, limit) ==
    LET keep == {i \in 1..Len(data) :
                    /\ data[i].total_shots <= min_shots
                    /\ (IsBlank(search) \/ Contains(Lower(search), Lower(data[i].name)))}
    IN  Take(SortByTotalShots(SelectIdx(data, keep)), limit)

\* a filter that compares the name with the search term as written
roster_filter_CaseSensitive(data, search, min_shots, limit) ==
    LET keep == {i \in 1..Len(data) :
                    /\ data[i].total_shots >= min_shots
                    /\ (IsBlank(search) \/ Contains(search, data[i].name))}
    IN  Take(SortByTotalShots(SelectIdx(data, keep)), limit)

\* the filter of get_players over the snapshot
roster_filter(data, search, min_shots, limit) ==
    LET keep == {i \in 1..Len(data) :
                    /\ data[i].total_shots >= min_shots
                    /\ (IsBlank(search) \/ Contains(Lower(search), Lower(data[i].name)))}
    IN  Take(SortByTotalShots(SelectIdx(data, keep)), limit)

----------------------------------------------------------------------------
(* GET /api/players *)

StartupMinShots == 50
StartupLimit == 500
RefreshMinShots == 10
RefreshLimit == 6000
StaleAfter == 600
SnapshotTtl == 120
PlayersRpcTtl == 300
sample_limit == 5000

\* "players|{search}|{min_shots}|{limit}"
players_key(search, min_shots, limit) ==
    JoinStr(<< <<"p", "l", "a", "y", "e", "r", "s">>, search,
               IntToStr(min_shots), IntToStr(limit) >>, <<"|">>)

\* .limit(sample_limit) over the table, taken group by group
RECURSIVE sample_groups(_, _)
sample_groups(groups, room) ==
    IF groups = <<>> \/ room <= 0 THEN <<>>
    ELSE LET g == Head(groups)
             n == Min(g.attempts, room)
         IN  <<[name |-> g.name, attempts |-> n, made |-> Min(g.made, n)]>>
             \o sample_groups(Tail(groups), room - n)

\* the client-side aggregation of get_players over the capped sample
players_from_sample(tb, search, min_shots, limit) ==
    LET matching == IF search # <<>>
                    THEN SelectIdx(tb, {i \in 1..Len(tb) :
                                          Contains(Lower(search), Lower(tb[i].name))})
                    ELSE tb
        counts == sample_groups(matching, sample_limit)
        kept == SelectIdx(counts, {i \in 1..Len(counts) : counts[i].attempts >= min_shots})
        players == [i \in 1..Len(kept) |-> RosterEntry(kept[i])]
    IN  Take(SortByTotalShots(players), limit)

\* a handler that takes a snapshot of exactly the limit age for stale
get_players_StaleAtLimit(c, pc, tb, search, min_shots, limit, okRefresh, okRpc, okSample) ==
    LET cache_key == players_key(search, min_shots, limit)
        got == cache_get(c, cache_key, monotonic)
        stale == pc.data = <<>> \/ time - pc.fetched_at >= StaleAfter
        pc1 == IF stale
               THEN load_players_cache(pc, tb, RefreshMinShots, RefreshLimit, okRefresh)
               ELSE pc
        calls1 == IF stale THEN <<[fn |-> "get_players_with_stats", ok |-> okRefresh]>>
                  ELSE <<>>
    IN  IF got.data # None
        THEN [players |-> got.data.items, tier |-> "cache", cache |-> got.store,
              pc |-> pc, calls |-> <<>>]
        ELSE IF pc1.data # <<>>
        THEN LET filtered == roster_filter(pc1.data, search, min_shots, limit)
             IN  [players |-> filtered, tier |-> "snapshot",
                  cache |-> cache_set(got.store, cache_key, PyList(filtered),
                                      SnapshotTtl, monotonic),
                  pc |-> pc1, calls |-> calls1]
        ELSE IF okRpc
        THEN LET players == rpc_get_players_with_stats(tb, search, min_shots, limit)
             IN  [players |-> players, tier |-> "rpc",
                  cache |-> cache_set(got.store, cache_key, PyList(players),
                                      PlayersRpcTtl, monotonic),
                  pc |-> pc1,
                  calls |-> calls1 \o <<[fn |-> "get_players_with_stats", ok |-> TRUE]>>]
        ELSE IF okSample
        THEN [players |-> players_from_sample(tb, search, min_shots, limit),
              tier |-> "sample", cache |-> got.store, pc |-> pc1,
              calls |-> calls1 \o <<[fn |-> "get_players_with_stats", ok |-> FALSE],
                                    [fn |-> "shots", ok |-> TRUE]>>]
        ELSE [players |-> <<>>, tier |-> "none", cache |-> got.store, pc |-> pc1,
              calls |-> calls1 \o <<[fn |-> "get_players_with_stats", ok |-> FALSE],
                                    [fn |-> "shots", ok |-> FALSE]>>]

\* get_players(search, min_shots, limit), given how each backing-store call
\* it may make ends: the response, the tier that answered, the cache and the
\* snapshot it leaves, and the calls it made
get_players(c, pc, tb, search, min_shots, limit, okRefresh, okRpc, okSample) ==
    LET cache_key == players_key(search, min_shots, limit)
        got == cache_get(c, cache_key, monotonic)
        stale == pc.data = <<>> \/ time - pc.fetched_at > StaleAfter
        pc1 == IF stale
               THEN load_players_cache(pc, tb, RefreshMinShots, RefreshLimit, okRefresh)
               ELSE pc
        calls1 == IF stale THEN <<[fn |-> "get_players_with_stats", ok |-> okRefresh]>>
                  ELSE <<>>
    IN  IF got.data # None
        THEN [players |-> got.data.items, tier |-> "cache", cache |-> got.store,
              pc |-> pc, calls |-> <<>>]
        ELSE IF pc1.data # <<>>
        THEN LET filtered == roster_filter(pc1.data, search, min_shots, limit)
             IN  [players |-> filtered, tier |-> "snapshot",
                  cache |-> cache_set(got.store, cache_key, PyList(filtered),
                                      SnapshotTtl, monotonic),
                  pc |-> pc1, calls |-> calls1]
        ELSE IF okRpc
        THEN LET players == rpc_get_players_with_stats(tb, search, min_shots, limit)
             IN  [players |-> players, tier |-> "rpc",
                  cache |-> cache_set(got.store, cache_key, PyList(players),
                                      PlayersRpcTtl, monotonic),
                  pc |-> pc1,
                  calls |-> calls1 \o <<[fn |-> "get_players_with_stats", ok |-> TRUE]>>]
        ELSE IF okSample
        THEN [players |-> players_from_sample(tb, search, min_shots, limit),
              tier |-> "sample", cache |-> got.store, pc |-> pc1,
              calls |-> calls1 \o <<[fn |-> "get_players_with_stats", ok |-> FALSE],
                                    [fn |-> "shots", ok |-> TRUE]>>]
        ELSE [players |-> <<>>, tier |-> "none", cache |-> got.store, pc |-> pc1,
              calls |-> calls1 \o <<[fn |-> "get_players_with_stats", ok |-> FALSE],
                                    [fn |-> "shots", ok |-> FALSE]>>]

----------------------------------------------------------------------------
(* The aggregation fallback engine: _compute_stats_from_rows *)

\* A shot row: [player_name, loc_x, loc_y, shot_made_flag, shot_distance,
\* shot_type, action_type, year].  A nullable number is <<>> (None) or <<n>>;
\* shot_type and action_type are "" when null.

\* sqrt of a perfect square
Sqrt(n) == CHOOSE r \in 0..n : r * r = n

\* the distance the loop works with: shot_distance, else the norm of (loc_x, loc_y)
row_dist(r) ==
    IF r.shot_distance # <<>> THEN r.shot_distance
    ELSE IF r.loc_x # <<>> /\ r.loc_y # <<>>
         THEN <<Sqrt(r.loc_x[1] * r.loc_x[1] + r.loc_y[1] * r.loc_y[1])>>
         ELSE <<>>

\* the zone label with the thresholds themselves counted in the farther bucket
zone_label_Exclusive(dist) ==
    IF dist = <<>> THEN "3PT (22+ft)"
    ELSE IF dist[1] < 5 THEN "Paint (0-5ft)"
    ELSE IF dist[1] < 10 THEN "Short (5-10ft)"
    ELSE IF dist[1] < 15 THEN "Mid (10-15ft)"
    ELSE IF dist[1] < 22 THEN "Long 2 (15-22ft)"
    ELSE "3PT (22+ft)"

\* the zone label of a distance
zone_label(dist) ==
    IF dist = <<>> THEN "3PT (22+ft)"
    ELSE IF dist[1] <= 5 THEN "Paint (0-5ft)"
    ELSE IF dist[1] <= 10 THEN "Short (5-10ft)"
    ELSE IF dist[1] <= 15 THEN "Mid (10-15ft)"
    ELSE IF dist[1] <= 22 THEN "Long 2 (15-22ft)"
    ELSE "3PT (22+ft)"

\* a tally that counts the made flag of a key already met but not the attempt
tally_add_NoRepeat(d, k, made) ==
    IF \E i \in 1..Len(d) : d[i].key = k
    THEN [i \in 1..Len(d) |->
            IF d[i].key = k
            THEN [key |-> k, attempts |-> d[i].attempts,
                  made |-> d[i].made + (IF made THEN 1 ELSE 0)]
            ELSE d[i]]
    ELSE Append(d, [key |-> k, attempts |-> 1, made |-> IF made THEN 1 ELSE 0])

\* a tally that counts every attempt as made
tally_add_AllMade(d, k, made) ==
    IF \E i \in 1..Len(d) : d[i].key = k
    THEN [i \in 1..Len(d) |->
            IF d[i].key = k
            THEN [key |-> k, attempts |-> d[i].attempts + 1, made |-> d[i].made + 1]
            ELSE d[i]]
    ELSE Append(d, [key |-> k, attempts |-> 1, made |-> 1])

\* d.setdefault(k, {attempts: 0, made: 0}); d[k].attempts += 1; d[k].made += made
tally_add(d, k, made) ==
    IF \E i \in 1..Len(d) : d[i].key = k
    THEN [i \in 1..Len(d) |->
            IF d[i].key = k
            THEN [key |-> k, attempts |-> d[i].attempts + 1,
                  made |-> d[i].made + (IF made THEN 1 ELSE 0)]
            ELSE d[i]]
    ELSE Append(d, [key |-> k, attempts |-> 1, made |-> IF made THEN 1 ELSE 0])

\* the dict a loop over the rows builds, in insertion order; keys[i] = <<>>
\* leaves row i out
RECURSIVE tally(_, _, _)
tally(d, keys, rows) ==
    IF rows = <<>> THEN d
    ELSE tally(IF Head(keys) = <<>> THEN d
               ELSE tally_add(d, Head(keys)[1], Head(rows).shot_made_flag),
               Tail(keys), Tail(rows))

\* to_list(d, sort_key, limit): entries sorted descending by sortBy
\* ("attempts" or "year"), cut to limit when limit is not 0
to_list(d, sortBy, limit) ==
    LET items == [i \in 1..Len(d) |->
                    [k |-> IF sortBy = "year" THEN d[i].key ELSE d[i].attempts,
                     v |-> LET fg == IF d[i].attempts # 0
                                     THEN Round3(d[i].made, d[i].attempts) ELSE 0
                           IN  IF sortBy = "year"
                               THEN [year |-> d[i].key, attempts |-> d[i].attempts,
                                     made |-> d[i].made, fg_pct |-> fg]
                               ELSE [label |-> d[i].key, attempts |-> d[i].attempts,
                                     made |-> d[i].made, fg_pct |-> fg]]]
        sorted == SortDesc(items)
        out == [i \in 1..Len(sorted) |-> sorted[i].v]
    IN  IF limit # 0 THEN Take(out, limit) ELSE out

RECURSIVE SumSeq(_)
SumSeq(s) == IF s = <<>> THEN 0 ELSE Head(s) + SumSeq(Tail(s))

\* round(x, 1) of total / n, in tenths (half to even)
Round1(total, n) ==
    LET q == (10 * total) \div n
        r2 == 2 * ((10 * total) % n)
    IN  IF r2 < n THEN q
        ELSE IF r2 > n THEN q + 1
        ELSE IF q % 2 = 0 THEN q ELSE q + 1

NoStats == [kind |-> "empty"]

ActionsLimit == 10

\* _compute_stats_from_rows(rows)
compute_stats_from_rows(rows) ==
    IF rows = <<>> THEN NoStats
    ELSE
    LET total_shots == Len(rows)
        made_shots == SumSeq([i \in 1..Len(rows) |->
                                 IF rows[i].shot_made_flag THEN 1 ELSE 0])
        n == Len(rows)
        dists == [i \in 1..n |-> row_dist(rows[i])]
        distances == SelectIdx(dists, {i \in 1..n : dists[i] # <<>>})
        shot_types == tally(<<>>, [i \in 1..n |->
                          <<IF rows[i].shot_type # "" THEN rows[i].shot_type
                            ELSE "Unknown">>], rows)
        seasons == tally(<<>>, [i \in 1..n |-> rows[i].year], rows)
        actions == tally(<<>>, [i \in 1..n |->
                          <<IF rows[i].action_type # "" THEN rows[i].action_type
                            ELSE "Other">>], rows)
        zones == tally(<<>>, [i \in 1..n |-> <<zone_label(dists[i])>>], rows)
    IN  [kind |-> "stats",
         player_name |-> rows[1].player_name,
         total_shots |-> total_shots,
         made_shots |-> made_shots,
         fg_pct |-> IF total_shots # 0 THEN Round3(made_shots, total_shots) ELSE 0,
         avg_distance |-> IF distances # <<>>
                          THEN <<Round1(SumSeq([i \in 1..Len(distances) |-> distances[i][1]]),
                                        Len(distances))>>
                          ELSE <<>>,
         shot_types |-> to_list(shot_types, "attempts", 0),
         seasons |-> to_list(seasons, "year", 0),
         zones |-> to_list(zones, "attempts", 0),
         actions |-> to_list(actions, "attempts", ActionsLimit)]

----------------------------------------------------------------------------
(* The backing store, row by row *)

\* years arguments: None, or PyList of the years

\* .eq("player_name", name) and, when years is a non-empty list, .in_("year", years)
rows_of(d, name, years) ==
    SelectIdx(d, {i \in 1..Len(d) :
        /\ d[i].player_name = name
        /\ (years = None \/ years.items = <<>>
            \/ (d[i].year # <<>> /\ \E j \in 1..Len(years.items) :
                                        years.items[j] = d[i].year[1]))})

\* the shots table per player, counted from the rows, in table order
RECURSIVE tbl_of(_, _)
tbl_of(acc, d) ==
    IF d = <<>> THEN [i \in 1..Len(acc) |->
                        [name |-> acc[i].key, attempts |-> acc[i].attempts,
                         made |-> acc[i].made]]
    ELSE tbl_of(tally_add(acc, Head(d).player_name, Head(d).shot_made_flag), Tail(d))

\* the per-player view of the shots table the roster aggregation reads
StoreTbl == IF tbl # <<>> THEN tbl ELSE tbl_of(<<>>, db)

\* rpc get_player_stats(p_player_name, p_years): the summary of the player's
\* shots of those years; no data when there are none
rpc_get_player_stats(d, name, years) == compute_stats_from_rows(rows_of(d, name, years))

\* ','.join(map(str, years)) if years else 'all'
years_part(years) ==
    IF years = None \/ years.items = <<>> THEN <<"a", "l", "l">>
    ELSE JoinStr([i \in 1..Len(years.items) |-> IntToStr(years.items[i])], <<",">>)

\* dict.update
MapUpdate(m, d) ==
    [k \in DOMAIN m \cup DOMAIN d |-> IF k \in DOMAIN d THEN d[k] ELSE m[k]]

\* HTTPException(status_code=404, detail=f"Player '{name}' not found")
NotFound(name) == [status |-> 404, body |-> [detail |-> "Player not found", player |-> name]]

----------------------------------------------------------------------------
(* GET /api/players as an action, and specification SpecPlayers *)

\* the requests the model sends
PlayersRequests ==
    {[search |-> <<>>, min_shots |-> 100, limit |-> 100],
     [search |-> <<>>, min_shots |-> 10, limit |-> 1],
     [search |-> <<"a">>, min_shots |-> 10, limit |-> 100],
     [search |-> <<"A">>, min_shots |-> 10, limit |-> 100],
     [search |-> <<" ">>, min_shots |-> 100, limit |-> 100]}

MaxOps == 2

\* _startup_warm: the roster prefetch
StartupWarm ==
    /\ phase = "boot"
    /\ \E ok \in BOOLEAN :
        /\ players_cache' = load_players_cache(players_cache, StoreTbl, StartupMinShots,
                                               StartupLimit, ok)
        /\ calls' = <<[fn |-> "get_players_with_stats", ok |-> ok]>>
    /\ phase' = "serving"
    /\ warm' = "pending"
    /\ resp' = [op |-> "startup"]
    /\ UNCHANGED <<clock, cache, stats_cache, cache_file, dataV, nops, lastSet, lock, thr>>

GetPlayers ==
    /\ phase = "serving"
    /\ nops < MaxOps
    /\ \E req \in PlayersRequests,
          okRefresh \in BOOLEAN, okRpc \in BOOLEAN, okSample \in BOOLEAN :
        \E r \in {get_players(cache, players_cache, StoreTbl, req.search, req.min_shots,
                               req.limit, okRefresh, okRpc, okSample)} :
            /\ cache' = r.cache
            /\ players_cache' = r.pc
            /\ calls' = r.calls
            /\ resp' = [op |-> "get_players", search |-> req.search,
                        min_shots |-> req.min_shots, limit |-> req.limit,
                        status |-> 200, body |-> [players |-> r.players],
                        tier |-> r.tier, at |-> clock, before |-> cache,
                        snapshot |-> players_cache]
    /\ nops' = nops + 1
    /\ UNCHANGED <<clock, stats_cache, cache_file, dataV, procV, lastSet>>

TickSteps == {200, 601}
MaxClock == 601

Tick ==
    /\ \E d \in TickSteps :
        /\ clock + d <= MaxClock
        /\ clock' = clock + d
    /\ UNCHANGED <<cache, memV, dataV, procV, nops, resp, calls, lastSet>>

\* the tables the backing store may hold for the roster
NameAl == <<"A", "l">>
NameBo == <<"B", "o">>
ShotCounts == {<<20, 200>>, <<60, 200>>, <<200, 60>>, <<200, 200>>}
TblChoices ==
    {<< [name |-> NameAl, attempts |-> n[1], made |-> n[1] \div 2],
        [name |-> NameBo, attempts |-> n[2], made |-> n[2] \div 4] >> :
        n \in ShotCounts}

InitPlayers ==
    /\ clock = 0
    /\ cache = EmptyMap
    /\ players_cache = [data |-> <<>>, fetched_at |-> 0]
    /\ stats_cache = EmptyMap
    /\ cache_file = [exists |-> FALSE, corrupt |-> FALSE, data |-> EmptyMap]
    /\ tbl \in TblChoices
    /\ db = <<>>
    /\ phase = "boot"
    /\ warm = "off"
    /\ lock = "free"
    /\ thr = NoThreads
    /\ nops = 0
    /\ resp = [op |-> "init"]
    /\ calls = <<>>
    /\ lastSet = EmptyMap

NextPlayers == StartupWarm \/ GetPlayers \/ Tick

SpecPlayers == InitPlayers /\ [][NextPlayers]_vars

\* C2: the list get_players serves from the roster snapshot equals the list
\* the backing store's get_players_with_stats returns for the same search,
\* min_shots and limit.
C2_SnapshotEqualsRpc ==
    (resp.op = "get_players" /\ resp.tier = "snapshot") =>
        resp.body.players = rpc_get_players_with_stats(StoreTbl, resp.search,
                                                       resp.min_shots, resp.limit)

----------------------------------------------------------------------------
(* GET /api/player/{player_name} *)

PrecomputeTtl == 600
PlayerTtl == 300
player_page_size == 2000
player_capped_limit == 60000

\* "player|{player_name}|{years or all}"
player_key(name, years) ==
    JoinStr(<< <<"p", "l", "a", "y", "e", "r">>, name, years_part(years) >>, <<"|">>)

\* the paging loop of the fallback: the rows collected, whether a page query
\* raised (page number failAt raises; 0: none does), and the queries made
RECURSIVE collect_player_pages(_, _, _, _, _)
collect_player_pages(all, collected, offset, queries, failAt) ==
    IF ~(Len(collected) < player_capped_limit)
    THEN [ok |-> TRUE, rows |-> collected, queries |-> queries]
    ELSE IF queries + 1 = failAt
    THEN [ok |-> FALSE, rows |-> collected, queries |-> queries + 1]
    ELSE LET rows == SubSeq(all, offset + 1, Min(offset + player_page_size, Len(all)))
         IN  IF Len(rows) < player_page_size
             THEN [ok |-> TRUE, rows |-> collected \o rows, queries |-> queries + 1]
             ELSE collect_player_pages(all, collected \o rows, offset + player_page_size,
                                       queries + 1, failAt)

\* the log of n page queries, the last of which raised unless ok
page_calls(n, ok) ==
    [i \in 1..n |-> [fn |-> "shots", ok |-> (ok \/ i < n)]]

\* the live path with the 404 of an empty aggregation result caught by the
\* general handler, so that it falls through to the raw-row fallback
player_live_NoReraise(c, key, name, rpc, okRpc, fb) ==
    LET stats == compute_stats_from_rows(fb.rows)
        rpcCall == <<[fn |-> "get_player_stats", ok |-> okRpc]>>
    IN  IF okRpc /\ rpc # NoStats
        THEN [status |-> 200, body |-> rpc, tier |-> "rpc",
              cache |-> cache_set(c, key, rpc, PlayerTtl, monotonic), calls |-> rpcCall]
        ELSE IF ~fb.ok
        THEN [status |-> 500, body |-> [detail |-> "Unable to load player stats right now"],
              tier |-> "fallback", cache |-> c,
              calls |-> rpcCall \o page_calls(fb.queries, FALSE)]
        ELSE IF stats = NoStats
        THEN NotFound(name) @@ [tier |-> "fallback", cache |-> c,
                                calls |-> rpcCall \o page_calls(fb.queries, TRUE)]
        ELSE [status |-> 200, body |-> stats, tier |-> "fallback",
              cache |-> cache_set(c, key, stats, PlayerTtl, monotonic),
              calls |-> rpcCall \o page_calls(fb.queries, TRUE)]

\* a variant of the live path in which the fallback's own not-found is caught
\* by its general handler and reported as a failure
player_live_Swallow404(c, key, name, rpc, okRpc, fb) ==
    LET stats == compute_stats_from_rows(fb.rows)
        rpcCall == <<[fn |-> "get_player_stats", ok |-> okRpc]>>
    IN  IF okRpc
        THEN IF rpc # NoStats
             THEN [status |-> 200, body |-> rpc, tier |-> "rpc",
                   cache |-> cache_set(c, key, rpc, PlayerTtl, monotonic),
                   calls |-> rpcCall]
             ELSE NotFound(name) @@ [tier |-> "rpc", cache |-> c, calls |-> rpcCall]
        ELSE IF ~fb.ok \/ stats = NoStats
        THEN [status |-> 500, body |-> [detail |-> "Unable to load player stats right now"],
              tier |-> "fallback", cache |-> c,
              calls |-> rpcCall \o page_calls(fb.queries, fb.ok)]
        ELSE [status |-> 200, body |-> stats, tier |-> "fallback",
              cache |-> cache_set(c, key, stats, PlayerTtl, monotonic),
              calls |-> rpcCall \o page_calls(fb.queries, TRUE)]

\* the live path of get_player: the aggregation call, then on its failure the
\* paged raw rows aggregated locally.  rpc is what the call returns when it
\* succeeds (okRpc), fb what the paging loop collects.
player_live(c, key, name, rpc, okRpc, fb) ==
    LET stats == compute_stats_from_rows(fb.rows)
        rpcCall == <<[fn |-> "get_player_stats", ok |-> okRpc]>>
    IN  IF okRpc
        THEN IF rpc # NoStats
             THEN [status |-> 200, body |-> rpc, tier |-> "rpc",
                   cache |-> cache_set(c, key, rpc, PlayerTtl, monotonic),
                   calls |-> rpcCall]
             ELSE NotFound(name) @@ [tier |-> "rpc", cache |-> c, calls |-> rpcCall]
        ELSE IF ~fb.ok
        THEN [status |-> 500, body |-> [detail |-> "Unable to load player stats right now"],
              tier |-> "fallback", cache |-> c,
              calls |-> rpcCall \o page_calls(fb.queries, FALSE)]
        ELSE IF stats = NoStats
        THEN NotFound(name) @@ [tier |-> "fallback", cache |-> c,
                                calls |-> rpcCall \o page_calls(fb.queries, TRUE)]
        ELSE [status |-> 200, body |-> stats, tier |-> "fallback",
              cache |-> cache_set(c, key, stats, PlayerTtl, monotonic),
              calls |-> rpcCall \o page_calls(fb.queries, TRUE)]

\* a handler that consults the precompute cache whatever the year filter
get_player_AnyYears(c, sc, cf, d, name, years, okFile, okRpc, failAt) ==
    LET cache_key == player_key(name, years)
        got == cache_get(c, cache_key, monotonic)
        mem == IF name \in DOMAIN sc THEN sc[name] ELSE None
        readFile == mem = None /\ cf.exists
        fromFile == IF readFile /\ okFile /\ ~cf.corrupt /\ name \in DOMAIN cf.data
                    THEN cf.data[name] ELSE None
        cached_stats == IF mem # None THEN mem ELSE fromFile
        sc1 == IF fromFile # None THEN MapUpdate(sc, cf.data) ELSE sc
        pre == IF years = None THEN <<"precompute">> ELSE <<>>
    IN  IF got.data # None
        THEN [status |-> 200, body |-> got.data, tier |-> "cache", tiers |-> <<"cache">>,
              cache |-> got.store, sc |-> sc, calls |-> <<>>, readFile |-> FALSE]
        ELSE IF cached_stats # None
        THEN [status |-> 200, body |-> cached_stats, tier |-> "precompute",
              tiers |-> <<"cache", "precompute">>,
              cache |-> cache_set(got.store, cache_key, cached_stats, PrecomputeTtl,
                                  monotonic),
              sc |-> sc1, calls |-> <<>>, readFile |-> readFile]
        ELSE LET live == player_live(got.store, cache_key, name,
                                     rpc_get_player_stats(d, name, years), okRpc,
                                     collect_player_pages(rows_of(d, name, years),
                                                          <<>>, 0, 0, failAt))
             IN  live @@ [tiers |-> <<"cache">> \o pre \o
                                    (IF live.tier = "rpc" THEN <<"rpc">>
                                     ELSE <<"rpc", "fallback">>),
                          sc |-> sc1, readFile |-> readFile]

\* get_player(player_name, years): the response, the tiers consulted in
\* order, and the cache, precompute map and calls it leaves behind.
\* okFile: the durable file can be read and parsed.
get_player(c, sc, cf, d, name, years, okFile, okRpc, failAt) ==
    LET cache_key == player_key(name, years)
        got == cache_get(c, cache_key, monotonic)
        mem == IF name \in DOMAIN sc THEN sc[name] ELSE None
        readFile == years = None /\ mem = None /\ cf.exists
        fromFile == IF readFile /\ okFile /\ ~cf.corrupt /\ name \in DOMAIN cf.data
                    THEN cf.data[name] ELSE None
        cached_stats == IF mem # None THEN mem ELSE fromFile
        sc1 == IF fromFile # None THEN MapUpdate(sc, cf.data) ELSE sc
        pre == IF years = None THEN <<"precompute">> ELSE <<>>
    IN  IF got.data # None
        THEN [status |-> 200, body |-> got.data, tier |-> "cache", tiers |-> <<"cache">>,
              cache |-> got.store, sc |-> sc, calls |-> <<>>, readFile |-> FALSE]
        ELSE IF years = None /\ cached_stats # None
        THEN [status |-> 200, body |-> cached_stats, tier |-> "precompute",
              tiers |-> <<"cache", "precompute">>,
              cache |-> cache_set(got.store, cache_key, cached_stats, PrecomputeTtl,
                                  monotonic),
              sc |-> sc1, calls |-> <<>>, readFile |-> readFile]
        ELSE LET live == player_live(got.store, cache_key, name,
                                     rpc_get_player_stats(d, name, years), okRpc,
                                     collect_player_pages(rows_of(d, name, years),
                                                          <<>>, 0, 0, failAt))
             IN  live @@ [tiers |-> <<"cache">> \o pre \o
                                    (IF live.tier = "rpc" THEN <<"rpc">>
                                     ELSE <<"rpc", "fallback">>),
                          sc |-> sc1, readFile |-> readFile]


\* the inputs the model sends
PlayerNames == {NameAl, NameBo}
YearsArgs == {None, PyList(<<2024>>)}

GetPlayer ==
    /\ phase = "serving"
    /\ nops < MaxOps
    /\ \E name \in PlayerNames, years \in YearsArgs,
          okFile \in BOOLEAN, okRpc \in BOOLEAN, failAt \in 0..1 :
        \E r \in {get_player(cache, stats_cache, cache_file, db, name, years,
                             okFile, okRpc, failAt)} :
            /\ cache' = r.cache
            /\ stats_cache' = r.sc
            /\ calls' = r.calls
            /\ resp' = [op |-> "get_player", name |-> name, years |-> years,
                        status |-> r.status, body |-> r.body, tier |-> r.tier,
                        tiers |-> r.tiers, readFile |-> r.readFile,
                        fileFailed |-> (r.readFile /\ ~okFile),
                        at |-> clock, before |-> cache]
    /\ nops' = nops + 1
    /\ UNCHANGED <<clock, players_cache, cache_file, dataV, procV, lastSet>>

----------------------------------------------------------------------------
(* _warm_stats_cache, run as one step *)

WarmMinShots == 1
WarmLimit == 2000

\* cache_out: the summary of every roster player whose aggregation call
\* succeeded (okPlayers) with data
warm_cache_out(d, tb, okPlayers) ==
    LET roster == rpc_get_players_with_stats(tb, <<>>, WarmMinShots, WarmLimit)
        players == {roster[i].name : i \in {j \in 1..Len(roster) : roster[j].name # <<>>}}
        have == {n \in players \cap okPlayers : rpc_get_player_stats(d, n, None) # NoStats}
    IN  [n \in have |-> rpc_get_player_stats(d, n, None)]

\* the file after the dump: written, untouched (open failed) or cut short
warm_file(cf, cache_out, wr) ==
    IF wr = "ok" THEN [exists |-> TRUE, corrupt |-> FALSE, data |-> cache_out]
    ELSE IF wr = "partial" THEN [exists |-> TRUE, corrupt |-> TRUE, data |-> EmptyMap]
    ELSE cf

\* a warm-up that gives up when the file cannot be written in full
warm_stats_cache_StopOnWriteError(sc, cf, d, tb, okRoster, okPlayers, wr) ==
    IF ~okRoster THEN [sc |-> sc, cf |-> cf]
    ELSE LET cache_out == warm_cache_out(d, tb, okPlayers)
         IN  [sc |-> IF wr = "ok" THEN cache_out ELSE sc,
              cf |-> warm_file(cf, cache_out, wr)]

\* a warm-up that empties the precompute map and the file when it cannot get
\* the roster
warm_stats_cache_ClearOnFailure(sc, cf, d, tb, okRoster, okPlayers, wr) ==
    IF ~okRoster THEN [sc |-> EmptyMap, cf |-> warm_file(cf, EmptyMap, "ok")]
    ELSE LET cache_out == warm_cache_out(d, tb, okPlayers)
         IN  [sc |-> cache_out, cf |-> warm_file(cf, cache_out, wr)]

\* a warm-up that updates the precompute map without clearing it first
warm_stats_cache_NoClear(sc, cf, d, tb, okRoster, okPlayers, wr) ==
    IF ~okRoster THEN [sc |-> sc, cf |-> cf]
    ELSE LET cache_out == warm_cache_out(d, tb, okPlayers)
         IN  [sc |-> [n \in DOMAIN sc \cup DOMAIN cache_out |->
                        IF n \in DOMAIN cache_out THEN cache_out[n] ELSE sc[n]],
              cf |-> warm_file(cf, cache_out, wr)]

\* _warm_stats_cache(): the precompute map and the file it leaves
warm_stats_cache(sc, cf, d, tb, okRoster, okPlayers, wr) ==
    IF ~okRoster THEN [sc |-> sc, cf |-> cf]
    ELSE LET cache_out == warm_cache_out(d, tb, okPlayers)
         IN  [sc |-> cache_out, cf |-> warm_file(cf, cache_out, wr)]

WriteOutcomes == {"ok", "open_failed", "partial"}

WarmStats ==
    /\ warm = "pending"
    /\ \E okRoster \in BOOLEAN, okPlayers \in SUBSET PlayerNames, wr \in WriteOutcomes :
        \E r \in {warm_stats_cache(stats_cache, cache_file, db, StoreTbl, okRoster,
                                   okPlayers, wr)} :
            /\ stats_cache' = r.sc
            /\ cache_file' = r.cf
            /\ calls' = <<[fn |-> "get_players_with_stats", ok |-> okRoster]>>
            /\ resp' = [op |-> "warm_stats_cache", okRoster |-> okRoster,
                        okPlayers |-> IF okRoster THEN okPlayers ELSE {},
                        wr |-> IF okRoster THEN wr ELSE "none",
                        before |-> stats_cache, fileBefore |-> cache_file]
            /\ warm' = IF okRoster THEN "done" ELSE "failed"
    /\ UNCHANGED <<clock, cache, players_cache, dataV, phase, nops, lastSet, lock, thr>>

----------------------------------------------------------------------------
(* POST /api/compare *)

CompareTtl == 300

\* "compare|{player1}|{player2}|{years or all}"
compare_key(player1, player2, years) ==
    JoinStr(<< <<"c", "o", "m", "p", "a", "r", "e">>, player1, player2,
               years_part(years) >>, <<"|">>)

\* compare_players storing the payload before it checks that both players
\* have data
compare_players_CacheFirst(c, d, player1, player2, years, ok1, ok2) ==
    LET cache_key == compare_key(player1, player2, years)
        got == cache_get(c, cache_key, monotonic)
        r1 == rpc_get_player_stats(d, player1, years)
        r2 == rpc_get_player_stats(d, player2, years)
        stored == cache_set(got.store, cache_key, [player1 |-> r1, player2 |-> r2],
                            CompareTtl, monotonic)
    IN  IF got.data # None
        THEN [status |-> 200, body |-> got.data, tier |-> "cache", cache |-> got.store,
              calls |-> <<>>]
        ELSE IF ~ok1 \/ ~ok2
        THEN [status |-> 500, body |-> [detail |-> "str(e)", error |-> TransportError],
              tier |-> "rpc", cache |-> got.store,
              calls |-> <<[fn |-> "get_player_stats", ok |-> ok1]>>]
        ELSE IF r1 = NoStats
        THEN NotFound(player1) @@ [tier |-> "rpc", cache |-> stored, calls |-> <<>>]
        ELSE IF r2 = NoStats
        THEN NotFound(player2) @@ [tier |-> "rpc", cache |-> stored, calls |-> <<>>]
        ELSE [status |-> 200, body |-> [player1 |-> r1, player2 |-> r2], tier |-> "rpc",
              cache |-> stored, calls |-> <<>>]

\* compare_players(req): ok1, ok2: the two aggregation calls succeed
compare_players(c, d, player1, player2, years, ok1, ok2) ==
    LET cache_key == compare_key(player1, player2, years)
        got == cache_get(c, cache_key, monotonic)
        r1 == rpc_get_player_stats(d, player1, years)
        r2 == rpc_get_player_stats(d, player2, years)
        call1 == <<[fn |-> "get_player_stats", ok |-> ok1]>>
        call2 == <<[fn |-> "get_player_stats", ok |-> ok2]>>
    IN  IF got.data # None
        THEN [status |-> 200, body |-> got.data, tier |-> "cache", cache |-> got.store,
              calls |-> <<>>]
        ELSE IF ~ok1
        THEN [status |-> 500, body |-> [detail |-> "str(e)", error |-> TransportError],
              tier |-> "rpc", cache |-> got.store, calls |-> call1]
        ELSE IF ~ok2
        THEN [status |-> 500, body |-> [detail |-> "str(e)", error |-> TransportError],
              tier |-> "rpc", cache |-> got.store, calls |-> call1 \o call2]
        ELSE IF r1 = NoStats
        THEN NotFound(player1) @@ [tier |-> "rpc", cache |-> got.store,
                                   calls |-> call1 \o call2]
        ELSE IF r2 = NoStats
        THEN NotFound(player2) @@ [tier |-> "rpc", cache |-> got.store,
                                   calls |-> call1 \o call2]
        ELSE LET payload == [player1 |-> r1, player2 |-> r2]
             IN  [status |-> 200, body |-> payload, tier |-> "rpc",
                  cache |-> cache_set(got.store, cache_key, payload, CompareTtl, monotonic),
                  calls |-> call1 \o call2]

ComparePlayers ==
    /\ phase = "serving"
    /\ nops < MaxOps
    /\ \E player1 \in PlayerNames, player2 \in PlayerNames, years \in YearsArgs,
          ok1 \in BOOLEAN, ok2 \in BOOLEAN :
        \E r \in {compare_players(cache, db, player1, player2, years, ok1, ok2)} :
            /\ cache' = r.cache
            /\ calls' = r.calls
            /\ resp' = [op |-> "compare_players", player1 |-> player1,
                        player2 |-> player2, years |-> years, status |-> r.status,
                        body |-> r.body, tier |-> r.tier, at |-> clock, before |-> cache]
    /\ nops' = nops + 1
    /\ UNCHANGED <<clock, memV, dataV, procV, lastSet>>

----------------------------------------------------------------------------
(* GET /api/years *)

YearsTtl == 3600

years_key == <<"y", "e", "a", "r", "s">>

\* sorted(years)
SortAsc(ys) ==
    LET sorted == SortDesc([i \in 1..Len(ys) |-> [k |-> 0 - ys[i], v |-> ys[i]]])
    IN  [i \in 1..Len(sorted) |-> sorted[i].v]

\* the distinct years of the table
YearsOf(d) == {d[i].year[1] : i \in {j \in 1..Len(d) : d[j].year # <<>>}}

\* rpc get_available_years: the distinct years, in any order
YearOrders(d) ==
    {ys \in [1..Cardinality(YearsOf(d)) -> YearsOf(d)] :
        \A i, j \in 1..Len(ys) : i # j => ys[i] # ys[j]}

\* a get_years that stores the empty list of a failed call
get_years_CacheFailure(c, returned, okRpc) ==
    LET got == cache_get(c, years_key, monotonic)
        call == <<[fn |-> "get_available_years", ok |-> okRpc]>>
    IN  IF got.data # None
        THEN [status |-> 200, years |-> got.data.items, tier |-> "cache",
              cache |-> got.store, calls |-> <<>>]
        ELSE IF okRpc
        THEN [status |-> 200, years |-> SortAsc(returned), tier |-> "rpc",
              cache |-> cache_set(got.store, years_key, PyList(returned), YearsTtl,
                                  monotonic),
              calls |-> call]
        ELSE [status |-> 200, years |-> <<>>, tier |-> "none",
              cache |-> cache_set(got.store, years_key, PyList(<<>>), YearsTtl,
                                  monotonic),
              calls |-> call]

\* get_years(): returned is what the aggregation call returns when it succeeds
get_years(c, returned, okRpc) ==
    LET got == cache_get(c, years_key, monotonic)
        call == <<[fn |-> "get_available_years", ok |-> okRpc]>>
    IN  IF got.data # None
        THEN [status |-> 200, years |-> got.data.items, tier |-> "cache",
              cache |-> got.store, calls |-> <<>>]
        ELSE IF okRpc
        THEN [status |-> 200, years |-> SortAsc(returned), tier |-> "rpc",
              cache |-> cache_set(got.store, years_key, PyList(returned), YearsTtl,
                                  monotonic),
              calls |-> call]
        ELSE [status |-> 200, years |-> <<>>, tier |-> "none", cache |-> got.store,
              calls |-> call]

GetYears ==
    /\ phase = "serving"
    /\ nops < MaxOps
    /\ \E returned \in YearOrders(db), okRpc \in BOOLEAN :
        \E r \in {get_years(cache, returned, okRpc)} :
            /\ cache' = r.cache
            /\ calls' = r.calls
            /\ resp' = [op |-> "get_years", status |-> r.status,
                        body |-> [years |-> r.years],
                        tier |-> r.tier, at |-> clock, before |-> cache]
    /\ nops' = nops + 1
    /\ UNCHANGED <<clock, memV, dataV, procV, lastSet>>

----------------------------------------------------------------------------
(* The shot-list handlers *)

ShotsTtl == 600
BinsTtl == 900
shots_page_size == 1000
shots_cap == 50000
page_size_floor == 100
page_size_ceiling == 5000
bins_limit == 60000

\* .order("year", desc=False): ascending by year, rows without a year last,
\* rows of one year in table (id) order
RECURSIVE order_by_year(_, _)
order_by_year(done, todo) ==
    IF todo = <<>> THEN done
    ELSE LET r == Head(todo)
             before(q) == q.year # <<>> /\ (r.year = <<>> \/ q.year[1] <= r.year[1])
             stay(q) == before(q) \/ (q.year = <<>> /\ r.year = <<>>)
             k == Cardinality({i \in 1..Len(done) : stay(done[i])})
         IN  order_by_year(SubSeq(done, 1, k) \o <<r>> \o SubSeq(done, k + 1, Len(done)),
                           Tail(todo))

\* .range(offset, offset + page_size - 1)
range_of(rows, offset, page_size) ==
    SubSeq(rows, offset + 1, Min(Len(rows), offset + page_size))

\* the shot record the handlers return for a row
shot_of(row) ==
    [LOC_X |-> row.loc_x, LOC_Y |-> row.loc_y, SHOT_MADE_FLAG |-> row.shot_made_flag,
     SHOT_DISTANCE |-> row.shot_distance, SHOT_TYPE |-> row.shot_type,
     ACTION_TYPE |-> row.action_type, YEAR |-> row.year]

\* f"shots|{player_name}|{years or 'all'}|{limit}"
shots_key(name, years, limit) ==
    <<"s", "h", "o", "t", "s", "|">> \o name \o <<"|">> \o years_part(years)
        \o <<"|">> \o IntToStr(limit)

\* the paging loop of get_player_shots over the ordered rows of the player;
\* the query numbered failAt raises
RECURSIVE collect_shots(_, _, _, _, _, _)
collect_shots(all, collected, offset, queries, capped_limit, failAt) ==
    IF ~(Len(collected) < capped_limit)
    THEN [ok |-> TRUE, shots |-> collected, queries |-> queries]
    ELSE IF queries + 1 = failAt
    THEN [ok |-> FALSE, shots |-> collected, queries |-> queries + 1]
    ELSE LET rows == range_of(all, offset, shots_page_size)
             room == capped_limit - Len(collected)
             more == collected \o [i \in 1..Min(Len(rows), room) |-> shot_of(rows[i])]
         IN  IF Len(rows) < shots_page_size
             THEN [ok |-> TRUE, shots |-> more, queries |-> queries + 1]
             ELSE collect_shots(all, more, offset + shots_page_size, queries + 1,
                                capped_limit, failAt)

\* a variant of get_player_shots that lets the failure of a query escape
get_player_shots_Raise(c, d, name, years, limit, failAt) ==
    LET cache_key == shots_key(name, years, limit)
        got == cache_get(c, cache_key, monotonic)
        got_rows == collect_shots(order_by_year(<<>>, rows_of(d, name, years)), <<>>, 0, 0,
                                  Min(limit, shots_cap), failAt)
        payload == [shots |-> got_rows.shots, total |-> Len(got_rows.shots)]
    IN  IF got.data # None
        THEN [status |-> 200, body |-> got.data, tier |-> "cache", cache |-> got.store,
              calls |-> <<>>]
        ELSE IF got_rows.ok
        THEN [status |-> 200, body |-> payload, tier |-> "rows",
              cache |-> cache_set(got.store, cache_key, payload, ShotsTtl, monotonic),
              calls |-> page_calls(got_rows.queries, TRUE)]
        ELSE [status |-> 500, body |-> [detail |-> "Internal Server Error"], tier |-> "none",
              cache |-> got.store, calls |-> page_calls(got_rows.queries, FALSE)]

\* get_player_shots(player_name, years, limit)
get_player_shots(c, d, name, years, limit, failAt) ==
    LET cache_key == shots_key(name, years, limit)
        got == cache_get(c, cache_key, monotonic)
        got_rows == collect_shots(order_by_year(<<>>, rows_of(d, name, years)), <<>>, 0, 0,
                                  Min(limit, shots_cap), failAt)
        payload == [shots |-> got_rows.shots, total |-> Len(got_rows.shots)]
    IN  IF got.data # None
        THEN [status |-> 200, body |-> got.data, tier |-> "cache", cache |-> got.store,
              calls |-> <<>>]
        ELSE IF got_rows.ok
        THEN [status |-> 200, body |-> payload, tier |-> "rows",
              cache |-> cache_set(got.store, cache_key, payload, ShotsTtl, monotonic),
              calls |-> page_calls(got_rows.queries, TRUE)]
        ELSE [status |-> 200, body |-> [shots |-> <<>>, total |-> 0], tier |-> "none",
              cache |-> got.store, calls |-> page_calls(got_rows.queries, FALSE)]

\* f"shots_page|{player_name}|{years}|{page}|{page_size}"
shots_page_key(name, years, page, page_size) ==
    <<"s", "h", "o", "t", "s", "_", "p", "a", "g", "e", "|">> \o name \o <<"|">>
        \o years_part(years) \o <<"|">> \o IntToStr(page) \o <<"|">> \o IntToStr(page_size)

\* a page handler that puts no ceiling on page_size
get_player_shots_page_NoCeiling(c, d, name, years, req_page, req_page_size, ok) ==
    LET page == Max(1, req_page)
        page_size == Max(page_size_floor, req_page_size)
        offset == (page - 1) * page_size
        cache_key == shots_page_key(name, years, page, page_size)
        got == cache_get(c, cache_key, monotonic)
        rows == range_of(order_by_year(<<>>, rows_of(d, name, years)), offset, page_size)
        shots == [i \in 1..Len(rows) |-> shot_of(rows[i])]
        payload == [shots |-> shots, page |-> page, page_size |-> page_size,
                    count |-> Len(shots)]
    IN  IF got.data # None
        THEN [status |-> 200, body |-> got.data, tier |-> "cache", cache |-> got.store,
              calls |-> <<>>, range |-> <<>>]
        ELSE IF ok
        THEN [status |-> 200, body |-> payload, tier |-> "rows",
              cache |-> cache_set(got.store, cache_key, payload, ShotsTtl, monotonic),
              calls |-> page_calls(1, TRUE), range |-> <<offset, offset + page_size - 1>>]
        ELSE [status |-> 200,
              body |-> [shots |-> <<>>, page |-> page, page_size |-> page_size, count |-> 0],
              tier |-> "none", cache |-> got.store, calls |-> page_calls(1, FALSE),
              range |-> <<offset, offset + page_size - 1>>]

\* get_player_shots_page(req): one query, ordered by year; range is the
\* .range(first, last) of the query, <<>> when no query was made
get_player_shots_page(c, d, name, years, req_page, req_page_size, ok) ==
    LET page == Max(1, req_page)
        page_size == Max(page_size_floor, Min(req_page_size, page_size_ceiling))
        offset == (page - 1) * page_size
        cache_key == shots_page_key(name, years, page, page_size)
        got == cache_get(c, cache_key, monotonic)
        rows == range_of(order_by_year(<<>>, rows_of(d, name, years)), offset, page_size)
        shots == [i \in 1..Len(rows) |-> shot_of(rows[i])]
        payload == [shots |-> shots, page |-> page, page_size |-> page_size,
                    count |-> Len(shots)]
    IN  IF got.data # None
        THEN [status |-> 200, body |-> got.data, tier |-> "cache", cache |-> got.store,
              calls |-> <<>>, range |-> <<>>]
        ELSE IF ok
        THEN [status |-> 200, body |-> payload, tier |-> "rows",
              cache |-> cache_set(got.store, cache_key, payload, ShotsTtl, monotonic),
              calls |-> page_calls(1, TRUE), range |-> <<offset, offset + page_size - 1>>]
        ELSE [status |-> 200,
              body |-> [shots |-> <<>>, page |-> page, page_size |-> page_size, count |-> 0],
              tier |-> "none", cache |-> got.store, calls |-> page_calls(1, FALSE),
              range |-> <<offset, offset + page_size - 1>>]

\* f"shots_bins|{player_name}|{years}|{x_bins}|{y_bins}"
shots_bins_key(name, years, x_bins, y_bins) ==
    <<"s", "h", "o", "t", "s", "_", "b", "i", "n", "s", "|">> \o name \o <<"|">>
        \o years_part(years) \o <<"|">> \o IntToStr(x_bins) \o <<"|">> \o IntToStr(y_bins)

MinOf(S) == CHOOSE m \in S : \A n \in S : m <= n
MaxOf(S) == CHOOSE m \in S : \A n \in S : n <= m

\* int((v - lo) / step) if step else 0, with step = (hi - lo) / max(bins, 1):
\* the quotient (v - lo) * max(bins, 1) / (hi - lo), truncated
bin_index(v, lo, hi, bins) ==
    IF hi = lo THEN 0 ELSE ((v - lo) * Max(bins, 1)) \div (hi - lo)

\* get_player_shots_binned(req): one query of at most bins_limit rows, in
\* table order.  A row without a coordinate makes min/max or the subtraction
\* raise, which the handler catches like a failed query.
get_player_shots_binned(c, d, name, years, x_bins, y_bins, ok) ==
    LET cache_key == shots_bins_key(name, years, x_bins, y_bins)
        got == cache_get(c, cache_key, monotonic)
        rows == Take(rows_of(d, name, years), bins_limit)
        n == Len(rows)
        typeError == \E i \in 1..n : rows[i].loc_x = <<>> \/ rows[i].loc_y = <<>>
        xs == {rows[i].loc_x[1] : i \in 1..n}
        ys == {rows[i].loc_y[1] : i \in 1..n}
        keys == [i \in 1..n |->
                    <<bin_index(rows[i].loc_x[1], MinOf(xs), MaxOf(xs), x_bins),
                      bin_index(rows[i].loc_y[1], MinOf(ys), MaxOf(ys), y_bins)>>]
        bins == tally(<<>>, [i \in 1..n |-> <<keys[i]>>], rows)
        out == [i \in 1..Len(bins) |->
                   [x_bin |-> bins[i].key[1], y_bin |-> bins[i].key[2],
                    attempts |-> bins[i].attempts, made |-> bins[i].made,
                    fg_pct |-> <<bins[i].made, bins[i].attempts>>]]
        payload == [bins |-> out, x_bins |-> x_bins, y_bins |-> y_bins,
                    x_range |-> <<MinOf(xs), MaxOf(xs)>>,
                    y_range |-> <<MinOf(ys), MaxOf(ys)>>]
        call == <<[fn |-> "shots", ok |-> ok]>>
    IN  IF got.data # None
        THEN [status |-> 200, body |-> got.data, tier |-> "cache", cache |-> got.store,
              calls |-> <<>>]
        ELSE IF ~ok
        THEN [status |-> 200, body |-> [bins |-> <<>>], tier |-> "none",
              cache |-> got.store, calls |-> call]
        ELSE IF rows = <<>>
        THEN [status |-> 200, body |-> [bins |-> <<>>], tier |-> "rows",
              cache |-> got.store, calls |-> call]
        ELSE IF typeError
        THEN [status |-> 200, body |-> [bins |-> <<>>], tier |-> "error",
              cache |-> got.store, calls |-> call]
        ELSE [status |-> 200, body |-> payload, tier |-> "rows",
              cache |-> cache_set(got.store, cache_key, payload, BinsTtl, monotonic),
              calls |-> call]

\* the requests the model sends to the shot-list handlers
ShotLimits == {2, 50000}
PageArgs == {[page |-> 0, page_size |-> 50], [page |-> 1, page_size |-> 9999],
             [page |-> 2, page_size |-> 100], [page |-> -1, page_size |-> -5],
             [page |-> 2, page_size |-> 0]}
BinArgs == {[x_bins |-> 0, y_bins |-> 1], [x_bins |-> 2, y_bins |-> 2],
            [x_bins |-> 25, y_bins |-> 20]}

GetPlayerShots ==
    /\ phase = "serving"
    /\ nops < MaxOps
    /\ \E name \in PlayerNames, years \in YearsArgs, limit \in ShotLimits, failAt \in 0..1 :
        \E r \in {get_player_shots(cache, db, name, years, limit, failAt)} :
            /\ cache' = r.cache
            /\ calls' = r.calls
            /\ resp' = [op |-> "get_player_shots", name |-> name, years |-> years,
                        limit |-> limit, status |-> r.status, body |-> r.body,
                        tier |-> r.tier, at |-> clock, before |-> cache]
    /\ nops' = nops + 1
    /\ UNCHANGED <<clock, memV, dataV, procV, lastSet>>

GetPlayerShotsPage ==
    /\ phase = "serving"
    /\ nops < MaxOps
    /\ \E name \in PlayerNames, years \in YearsArgs, a \in PageArgs, ok \in BOOLEAN :
        \E r \in {get_player_shots_page(cache, db, name, years, a.page, a.page_size, ok)} :
            /\ cache' = r.cache
            /\ calls' = r.calls
            /\ resp' = [op |-> "get_player_shots_page", name |-> name, years |-> years,
                        page |-> a.page, page_size |-> a.page_size,
                        range |-> r.range,
                        status |-> r.status, body |-> r.body,
                        tier |-> r.tier, at |-> clock, before |-> cache]
    /\ nops' = nops + 1
    /\ UNCHANGED <<clock, memV, dataV, procV, lastSet>>

GetPlayerShotsBinned ==
    /\ phase = "serving"
    /\ nops < MaxOps
    /\ \E name \in PlayerNames, years \in YearsArgs, a \in BinArgs, ok \in BOOLEAN :
        \E r \in {get_player_shots_binned(cache, db, name, years, a.x_bins, a.y_bins, ok)} :
            /\ cache' = r.cache
            /\ calls' = r.calls
            /\ resp' = [op |-> "get_player_shots_binned", name |-> name, years |-> years,
                        x_bins |-> a.x_bins, y_bins |-> a.y_bins,
                        status |-> r.status, body |-> r.body,
                        tier |-> r.tier, at |-> clock, before |-> cache]
    /\ nops' = nops + 1
    /\ UNCHANGED <<clock, memV, dataV, procV, lastSet>>

----------------------------------------------------------------------------
(* Specification SpecPlayer: the player handlers over a table of a few rows *)

ShotRow(name, made, dist, x, y, stype, action, year) ==
    [player_name |-> name, loc_x |-> x, loc_y |-> y, shot_made_flag |-> made,
     shot_distance |-> dist, shot_type |-> stype, action_type |-> action, year |-> year]

RowA4 == ShotRow(NameAl, TRUE, <<4>>, <<0>>, <<4>>, "2PT", "Layup", <<2023>>)
RowA6 == ShotRow(NameAl, TRUE, <<6>>, <<6>>, <<0>>, "2PT", "Jump Shot", <<2024>>)
RowA24 == ShotRow(NameAl, FALSE, <<24>>, <<0>>, <<24>>, "3PT", "Jump Shot", <<2023>>)
RowB5 == ShotRow(NameBo, FALSE, <<>>, <<3>>, <<4>>, "", "", <<2024>>)
RowBx == ShotRow(NameBo, TRUE, <<>>, <<>>, <<>>, "3PT", "", <<>>)

RowPool == {RowA4, RowA6, RowA24, RowB5, RowBx}

\* the tables the handler specifications start from
DbSamples ==
    {<<>>, <<RowA4, RowA6, RowA24>>, <<RowA24, RowB5, RowA6>>, <<RowB5, RowBx>>}

InitPlayer ==
    /\ clock = 0
    /\ cache = EmptyMap
    /\ players_cache = [data |-> <<>>, fetched_at |-> 0]
    /\ stats_cache = EmptyMap
    /\ cache_file = [exists |-> FALSE, corrupt |-> FALSE, data |-> EmptyMap]
    /\ tbl = <<>>
    /\ db \in DbSamples
    /\ phase = "boot"
    /\ warm = "off"
    /\ lock = "free"
    /\ thr = NoThreads
    /\ nops = 0
    /\ resp = [op |-> "init"]
    /\ calls = <<>>
    /\ lastSet = EmptyMap

NextPlayer == StartupWarm \/ GetPlayer \/ ComparePlayers \/ GetYears \/ Tick

SpecPlayer == InitPlayer /\ [][NextPlayer]_vars

----------------------------------------------------------------------------
(* Specification SpecStats: get_player with the precompute cache *)

NextStats == StartupWarm \/ WarmStats \/ GetPlayer \/ Tick

SpecStats == InitPlayer /\ [][NextStats]_vars

----------------------------------------------------------------------------
(* Specification SpecRows: get_player over every table of up to MaxRows rows *)

MaxRows == 3

RECURSIVE SeqsUpTo(_, _)
SeqsUpTo(S, n) ==
    IF n = 0 THEN {<<>>}
    ELSE SeqsUpTo(S, n - 1) \cup {Append(q, x) : q \in {r \in SeqsUpTo(S, n - 1) : Len(r) = n - 1}, x \in S}

InitRows ==
    /\ clock = 0
    /\ cache = EmptyMap
    /\ players_cache = [data |-> <<>>, fetched_at |-> 0]
    /\ stats_cache = EmptyMap
    /\ cache_file = [exists |-> FALSE, corrupt |-> FALSE, data |-> EmptyMap]
    /\ tbl = <<>>
    /\ db \in SeqsUpTo(RowPool, MaxRows)
    /\ phase = "boot"
    /\ warm = "off"
    /\ lock = "free"
    /\ thr = NoThreads
    /\ nops = 0
    /\ resp = [op |-> "init"]
    /\ calls = <<>>
    /\ lastSet = EmptyMap

NextRows == StartupWarm \/ GetPlayer

SpecRows == InitRows /\ [][NextRows]_vars

----------------------------------------------------------------------------
(* Specification SpecLists: the list-shaped handlers *)

\* ten shots of one player, enough for the roster refresh to list them
TenRows == [i \in 1..10 |-> IF i % 2 = 0 THEN RowA4 ELSE RowA24]

ListDbs == {<<>>, <<RowA24, RowB5, RowA6, RowA4>>, TenRows \o <<RowB5, RowBx>>}

InitLists ==
    /\ clock = 0
    /\ cache = EmptyMap
    /\ players_cache = [data |-> <<>>, fetched_at |-> 0]
    /\ stats_cache = EmptyMap
    /\ cache_file = [exists |-> FALSE, corrupt |-> FALSE, data |-> EmptyMap]
    /\ tbl = <<>>
    /\ db \in ListDbs
    /\ phase = "boot"
    /\ warm = "off"
    /\ lock = "free"
    /\ thr = NoThreads
    /\ nops = 0
    /\ resp = [op |-> "init"]
    /\ calls = <<>>
    /\ lastSet = EmptyMap

NextLists ==
    StartupWarm \/ GetPlayers \/ GetPlayerShots \/ GetPlayerShotsPage
        \/ GetPlayerShotsBinned \/ Tick

SpecLists == InitLists /\ [][NextLists]_vars

----------------------------------------------------------------------------
(* Specification SpecRefresh: get_players run statement by statement by two
   request threads, the store's table changing from one call to the next *)

\* the requests the threads send
RefreshRequests ==
    {[search |-> <<>>, min_shots |-> 10, limit |-> 100],
     [search |-> <<"a">>, min_shots |-> 100, limit |-> 100]}

\* the tables the store may hold when a thread calls it: the two that rank
\* the players in opposite orders
RefreshTbls == {tb \in TblChoices : {tb[1].attempts, tb[2].attempts} = {60, 200}}

NoRefreshers ==
    [r \in Readers |->
        [pc |-> "idle", req |-> [search |-> <<>>, min_shots |-> 0, limit |-> 0],
         now |-> 0, result |-> <<>>, wrote |-> 0]]

InitRefresh ==
    /\ clock = 0
    /\ cache = EmptyMap
    /\ players_cache = [data |-> <<>>, fetched_at |-> 0]
    /\ stats_cache = EmptyMap
    /\ cache_file = [exists |-> FALSE, corrupt |-> FALSE, data |-> EmptyMap]
    /\ tbl \in TblChoices
    /\ db = <<>>
    /\ phase = "boot"
    /\ warm = "off"
    /\ lock = "free"
    /\ thr = NoRefreshers
    /\ nops = 0
    /\ resp = [op |-> "init"]
    /\ calls = <<>>
    /\ lastSet = EmptyMap

\* a _players_cache["data"] assignment that extends the list in place
set_snapshot_data_Extend(pc, data) == [pc EXCEPT !.data = pc.data \o data]

\* _players_cache["data"] = result.data
set_snapshot_data(pc, data) == [pc EXCEPT !.data = data]

\* _players_cache["fetched_at"] = time()
set_snapshot_fetched_at(pc, now) == [pc EXCEPT !.fetched_at = now]

\* the tiers of get_players that read the store: the aggregation call, then
\* the sample of raw rows, then the empty list
store_tiers(c, tb, search, min_shots, limit, okRpc, okSample) ==
    IF okRpc
    THEN LET players == rpc_get_players_with_stats(tb, search, min_shots, limit)
         IN  [players |-> players, tier |-> "rpc",
              cache |-> cache_set(c, players_key(search, min_shots, limit),
                                  PyList(players), PlayersRpcTtl, monotonic),
              calls |-> <<[fn |-> "get_players_with_stats", ok |-> TRUE]>>]
    ELSE IF okSample
    THEN [players |-> players_from_sample(tb, search, min_shots, limit),
          tier |-> "sample", cache |-> c,
          calls |-> <<[fn |-> "get_players_with_stats", ok |-> FALSE],
                      [fn |-> "shots", ok |-> TRUE]>>]
    ELSE [players |-> <<>>, tier |-> "none", cache |-> c,
          calls |-> <<[fn |-> "get_players_with_stats", ok |-> FALSE],
                      [fn |-> "shots", ok |-> FALSE]>>]

\* cached = cache_get(cache_key); now = time()
P_Start(t) ==
    /\ phase = "serving"
    /\ thr[t].pc = "idle"
    /\ \E req \in RefreshRequests :
        \E got \in {cache_get(cache, players_key(req.search, req.min_shots, req.limit),
                              monotonic)} :
            /\ cache' = got.store
            /\ IF got.data # None
               THEN /\ thr' = [thr EXCEPT ![t].pc = "done", ![t].req = req]
                    /\ resp' = [op |-> "get_players", by |-> t, tier |-> "cache",
                                snapshot |-> <<>>, body |-> [players |-> got.data.items]]
               ELSE /\ thr' = [thr EXCEPT ![t].pc = "checkData", ![t].req = req,
                                          ![t].now = time]
                    /\ UNCHANGED resp
    /\ UNCHANGED <<clock, memV, dataV, phase, warm, lock, nops, calls, lastSet>>

\* if not _players_cache["data"] or ...
P_CheckData(t) ==
    /\ thr[t].pc = "checkData"
    /\ thr' = [thr EXCEPT ![t].pc = IF players_cache.data = <<>> THEN "rpc" ELSE "checkAge"]
    /\ UNCHANGED <<clock, cache, memV, dataV, phase, warm, lock, nops, resp, calls, lastSet>>

\* ... or now - _players_cache["fetched_at"] > 600
P_CheckAge(t) ==
    /\ thr[t].pc = "checkAge"
    /\ thr' = [thr EXCEPT ![t].pc =
                  IF thr[t].now - players_cache.fetched_at > StaleAfter
                  THEN "rpc" ELSE "test"]
    /\ UNCHANGED <<clock, cache, memV, dataV, phase, warm, lock, nops, resp, calls, lastSet>>

\* the call of _load_players_cache: it succeeds or not, over the table the
\* store holds at that moment
P_Rpc(t) ==
    /\ thr[t].pc = "rpc"
    /\ \E ok \in BOOLEAN, tb \in RefreshTbls :
        \E data \in {IF ok
                     THEN rpc_get_players_with_stats(tb, <<>>, RefreshMinShots, RefreshLimit)
                     ELSE <<>>} :
            /\ thr' = [thr EXCEPT ![t].pc = IF data # <<>> THEN "setData" ELSE "test",
                                  ![t].result = data]
            /\ calls' = <<[fn |-> "get_players_with_stats", ok |-> ok]>>
    /\ UNCHANGED <<clock, cache, memV, dataV, phase, warm, lock, nops, resp, lastSet>>

\* _players_cache["data"] = result.data
P_SetData(t) ==
    /\ thr[t].pc = "setData"
    /\ players_cache' = set_snapshot_data(players_cache, thr[t].result)
    /\ nops' = nops + 1
    /\ thr' = [thr EXCEPT ![t].pc = "setAt", ![t].wrote = nops + 1]
    /\ UNCHANGED <<clock, cache, stats_cache, cache_file, dataV, phase, warm, lock, resp,
                   calls, lastSet>>

\* _players_cache["fetched_at"] = time()
P_SetAt(t) ==
    /\ thr[t].pc = "setAt"
    /\ players_cache' = set_snapshot_fetched_at(players_cache, time)
    /\ thr' = [thr EXCEPT ![t].pc = "test"]
    /\ UNCHANGED <<clock, cache, stats_cache, cache_file, dataV, phase, warm, lock, nops,
                   resp, calls, lastSet>>

\* if _players_cache["data"]: with no snapshot the request goes on to the
\* tiers that read the store, which leave the snapshot alone
P_Test(t) ==
    /\ thr[t].pc = "test"
    /\ IF players_cache.data # <<>>
       THEN /\ thr' = [thr EXCEPT ![t].pc = "filter"]
            /\ UNCHANGED <<cache, resp, calls>>
       ELSE \E okRpc \in BOOLEAN, okSample \in BOOLEAN, tb \in RefreshTbls :
                \E r \in {store_tiers(cache, tb, thr[t].req.search, thr[t].req.min_shots,
                                      thr[t].req.limit, okRpc, okSample)} :
                    /\ cache' = r.cache
                    /\ calls' = r.calls
                    /\ resp' = [op |-> "get_players", by |-> t, tier |-> r.tier,
                                snapshot |-> <<>>, body |-> [players |-> r.players]]
                    /\ thr' = [thr EXCEPT ![t].pc = "done"]
    /\ UNCHANGED <<clock, memV, dataV, phase, warm, lock, nops, lastSet>>

\* filtered = [p for p in _players_cache["data"] if ...], sorted and cut;
\* cache_set(cache_key, filtered, ttl_seconds=120)
P_Filter(t) ==
    /\ thr[t].pc = "filter"
    /\ \E snap \in {players_cache.data} :
        \E filtered \in {roster_filter(snap, thr[t].req.search, thr[t].req.min_shots,
                                       thr[t].req.limit)} :
            /\ cache' = cache_set(cache,
                                  players_key(thr[t].req.search, thr[t].req.min_shots,
                                              thr[t].req.limit),
                                  PyList(filtered), SnapshotTtl, monotonic)
            /\ resp' = [op |-> "get_players", by |-> t, tier |-> "snapshot",
                        snapshot |-> snap, body |-> [players |-> filtered]]
    /\ thr' = [thr EXCEPT ![t].pc = "done"]
    /\ UNCHANGED <<clock, memV, dataV, phase, warm, lock, nops, calls, lastSet>>

Refresher(t) ==
    P_Start(t) \/ P_CheckData(t) \/ P_CheckAge(t) \/ P_Rpc(t) \/ P_SetData(t)
        \/ P_SetAt(t) \/ P_Test(t) \/ P_Filter(t)

NextRefresh == StartupWarm \/ Tick \/ \E t \in Readers : Refresher(t)

SpecRefresh == InitRefresh /\ [][NextRefresh]_vars

----------------------------------------------------------------------------
(* Specification SpecPaging: the paging loops of the get_player fallback and of
   get_player_shots, one query at a time.  The rows are counted, not held:
   the loops only look at how many rows a page has. *)

\* how many rows of the player the store holds
StoreSizes == {0, 1, 999, 1000, 1001, 2000, 4500, 49999, 50000, 60000, 100000}

\* the limits sent to get_player_shots
PagingLimits == {0, 2, 1000, 2500, 50000, 70000}

NoLoop ==
    [pc |-> "idle", op |-> "none", stored |-> 0, page_size |-> 0, capped_limit |-> 0,
     limit |-> 0, collected |-> 0, offset |-> 0, queries |-> 0, rows |-> 0]

InitPaging ==
    /\ clock = 0
    /\ cache = EmptyMap
    /\ players_cache = [data |-> <<>>, fetched_at |-> 0]
    /\ stats_cache = EmptyMap
    /\ cache_file = [exists |-> FALSE, corrupt |-> FALSE, data |-> EmptyMap]
    /\ tbl = <<>>
    /\ db = <<>>
    /\ phase = "serving"
    /\ warm = "off"
    /\ lock = "free"
    /\ thr = NoLoop
    /\ nops = 0
    /\ resp = [op |-> "init"]
    /\ calls = <<>>
    /\ lastSet = EmptyMap

\* q.range(offset, offset + page_size - 1): the number of rows of the page
page_rows(stored, offset, page_size) == Min(page_size, Max(stored - offset, 0))

\* one turn of the get_player loop after a page of n rows:
\* collected.extend(rows); if len(rows) < page_size: break; offset += page_size
fallback_turn(st, n) ==
    [st EXCEPT !.collected = st.collected + n, !.rows = n,
               !.queries = st.queries + 1,
               !.offset = IF n < st.page_size THEN st.offset ELSE st.offset + st.page_size,
               !.pc = IF n < st.page_size THEN "done" ELSE "while"]

\* a get_player_shots loop that appends the whole page
shots_turn_NoCap(st, n) ==
    [st EXCEPT !.collected = st.collected + n, !.rows = n,
               !.queries = st.queries + 1,
               !.offset = IF n < st.page_size THEN st.offset ELSE st.offset + st.page_size,
               !.pc = IF n < st.page_size THEN "done" ELSE "while"]

\* one turn of the get_player_shots loop after a page of n rows: the rows are
\* appended one by one until capped_limit is reached;
\* if len(rows) < page_size: break; offset += page_size
shots_turn(st, n) ==
    [st EXCEPT !.collected = Min(st.collected + n, st.capped_limit), !.rows = n,
               !.queries = st.queries + 1,
               !.offset = IF n < st.page_size THEN st.offset ELSE st.offset + st.page_size,
               !.pc = IF n < st.page_size THEN "done" ELSE "while"]

\* the fallback of get_player starts: page_size = 2000, capped_limit = 60000
StartFallback ==
    /\ thr.pc = "idle"
    /\ \E stored \in StoreSizes :
        thr' = [NoLoop EXCEPT !.pc = "while", !.op = "get_player", !.stored = stored,
                              !.page_size = player_page_size,
                              !.capped_limit = player_capped_limit]
    /\ resp' = [op |-> "start"]
    /\ UNCHANGED <<clock, cache, memV, dataV, phase, warm, lock, nops, calls, lastSet>>

\* get_player_shots starts: page_size = 1000, capped_limit = min(limit, 50000)
StartShots ==
    /\ thr.pc = "idle"
    /\ \E stored \in StoreSizes, limit \in PagingLimits :
        thr' = [NoLoop EXCEPT !.pc = "while", !.op = "get_player_shots",
                              !.stored = stored, !.limit = limit,
                              !.page_size = shots_page_size,
                              !.capped_limit = Min(limit, shots_cap)]
    /\ resp' = [op |-> "start"]
    /\ UNCHANGED <<clock, cache, memV, dataV, phase, warm, lock, nops, calls, lastSet>>

\* while len(collected) < capped_limit: one page query and the turn it gives
LoopQuery ==
    /\ thr.pc = "while"
    /\ thr.collected < thr.capped_limit
    /\ \E n \in {page_rows(thr.stored, thr.offset, thr.page_size)} :
        thr' = IF thr.op = "get_player" THEN fallback_turn(thr, n) ELSE shots_turn(thr, n)
    /\ UNCHANGED <<clock, cache, memV, dataV, phase, warm, lock, nops, resp, calls, lastSet>>

\* the while condition fails
LoopExit ==
    /\ thr.pc = "while"
    /\ thr.collected >= thr.capped_limit
    /\ thr' = [thr EXCEPT !.pc = "done"]
    /\ UNCHANGED <<clock, cache, memV, dataV, phase, warm, lock, nops, resp, calls, lastSet>>

\* the handler answers: the summary of the collected rows, or
\* {"shots": collected, "total": len(collected)}
LoopAnswer ==
    /\ thr.pc = "done"
    /\ resp' = [op |-> thr.op, limit |-> thr.limit, stored |-> thr.stored,
                queries |-> thr.queries, shots |-> thr.collected,
                total |-> thr.collected, lastRows |-> thr.rows]
    /\ thr' = [thr EXCEPT !.pc = "answered"]
    /\ UNCHANGED <<clock, cache, memV, dataV, phase, warm, lock, nops, calls, lastSet>>

NextPaging == StartFallback \/ StartShots \/ LoopQuery \/ LoopExit \/ LoopAnswer

SpecPaging == InitPaging /\ [][NextPaging]_vars

----------------------------------------------------------------------------
(* Specification SpecServe: every request handler over a table of a few rows *)

NextServe ==
    StartupWarm \/ GetPlayers \/ GetYears \/ GetPlayer \/ ComparePlayers
        \/ GetPlayerShots \/ GetPlayerShotsPage \/ GetPlayerShotsBinned \/ Tick

SpecServe == InitPlayer /\ [][NextServe]_vars

----------------------------------------------------------------------------
(* Specification SpecAgg: _compute_stats_from_rows applied to a list of rows *)

MaxAggRows == 2
NActions == 11

\* rows at and around the zone thresholds, with and without a distance
ZonePool ==
    {ShotRow(NameAl, TRUE, <<5>>, <<>>, <<>>, "2PT", "Layup", <<2024>>),
     ShotRow(NameAl, FALSE, <<6>>, <<>>, <<>>, "2PT", "Layup", <<2024>>),
     ShotRow(NameAl, TRUE, <<10>>, <<1>>, <<1>>, "2PT", "Hook", <<2024>>),
     ShotRow(NameAl, FALSE, <<15>>, <<>>, <<>>, "2PT", "Jump Shot", <<2023>>),
     ShotRow(NameAl, TRUE, <<16>>, <<>>, <<>>, "2PT", "Jump Shot", <<2023>>),
     ShotRow(NameAl, TRUE, <<22>>, <<0>>, <<0>>, "2PT", "Jump Shot", <<>>),
     ShotRow(NameAl, FALSE, <<23>>, <<>>, <<>>, "3PT", "Jump Shot", <<2024>>),
     ShotRow(NameAl, TRUE, <<>>, <<3>>, <<4>>, "2PT", "", <<2024>>),
     ShotRow(NameAl, TRUE, <<>>, <<0>>, <<0>>, "", "Dunk", <<2024>>),
     ShotRow(NameAl, FALSE, <<>>, <<6>>, <<>>, "", "", <<2024>>),
     ShotRow(NameAl, TRUE, <<>>, <<>>, <<>>, "3PT", "", <<>>)}

ActionNames ==
    <<"Alley Oop", "Bank Shot", "Cutting Layup", "Dunk", "Fadeaway", "Finger Roll",
      "Hook", "Jump Shot", "Layup", "Putback", "Reverse Layup", "Step Back",
      "Tip Shot", "Turnaround">>

\* every action type once, in order, then the types counted twice once more,
\* last first
ActionRows(cnt) ==
    LET row(i) == ShotRow(NameAl, i % 2 = 0, <<4>>, <<>>, <<>>, "2PT", ActionNames[i],
                          <<2024>>)
        twice == SelectIdx([i \in 1..NActions |-> row(NActions + 1 - i)],
                           {i \in 1..NActions : cnt[NActions + 1 - i] = 2})
    IN  [i \in 1..NActions |-> row(i)] \o twice

AggInputs ==
    SeqsUpTo(ZonePool, MaxAggRows) \cup {ActionRows(cnt) : cnt \in [1..NActions -> 1..2]}

InitAgg ==
    /\ clock = 0
    /\ cache = EmptyMap
    /\ players_cache = [data |-> <<>>, fetched_at |-> 0]
    /\ stats_cache = EmptyMap
    /\ cache_file = [exists |-> FALSE, corrupt |-> FALSE, data |-> EmptyMap]
    /\ tbl = <<>>
    /\ db \in AggInputs
    /\ phase = "boot"
    /\ warm = "off"
    /\ lock = "free"
    /\ thr = NoThreads
    /\ nops = 0
    /\ resp = [op |-> "init"]
    /\ calls = <<>>
    /\ lastSet = EmptyMap

\* stats = _compute_stats_from_rows(collected)
ComputeStats ==
    /\ resp.op = "init"
    /\ resp' = [op |-> "compute_stats_from_rows", rows |-> db,
                out |-> compute_stats_from_rows(db)]
    /\ UNCHANGED <<clock, cache, memV, dataV, procV, nops, calls, lastSet>>

NextAgg == ComputeStats

SpecAgg == InitAgg /\ [][NextAgg]_vars

----------------------------------------------------------------------------
(* Specification SpecWarm: _warm_stats_cache and get_player, thread by thread *)

\* threading.Lock: `with _stats_cache_lock` is entered only when no thread holds it
CanAcquire_NoLock(l) == TRUE

CanAcquire(l) == l = "free"

\* the warm-up thread's roster call and per-player calls; they read the
\* backing store only
W_Compute ==
    /\ warm = "pending"
    /\ thr.wpc = "start"
    /\ \E okRoster \in BOOLEAN, okPlayers \in SUBSET PlayerNames :
        /\ thr' = IF okRoster
                  THEN [thr EXCEPT !.wpc = "open",
                                   !.cache_out = warm_cache_out(db, StoreTbl, okPlayers)]
                  ELSE [thr EXCEPT !.wpc = "done"]
        /\ warm' = IF okRoster THEN warm ELSE "failed"
        /\ calls' = <<[fn |-> "get_players_with_stats", ok |-> okRoster]>>
    /\ UNCHANGED <<clock, cache, memV, dataV, phase, nops, resp, lastSet, lock>>

\* open(CACHE_FILE, "w"): the file is truncated, or the open fails
W_Open ==
    /\ thr.wpc = "open"
    /\ \E ok \in BOOLEAN :
        /\ cache_file' = IF ok THEN warm_file(cache_file, thr.cache_out, "partial")
                         ELSE warm_file(cache_file, thr.cache_out, "open_failed")
        /\ thr' = [thr EXCEPT !.wpc = IF ok THEN "dump" ELSE "acquire"]
    /\ UNCHANGED <<clock, cache, players_cache, stats_cache, dataV, phase, warm, nops,
                   resp, calls, lastSet, lock>>

\* json.dump(cache_out, f): written whole, or cut short by an error
W_Dump ==
    /\ thr.wpc = "dump"
    /\ \E wr \in {"ok", "partial"} :
        cache_file' = warm_file(cache_file, thr.cache_out, wr)
    /\ thr' = [thr EXCEPT !.wpc = "acquire"]
    /\ UNCHANGED <<clock, cache, players_cache, stats_cache, dataV, phase, warm, nops,
                   resp, calls, lastSet, lock>>

\* with _stats_cache_lock:
W_Acquire ==
    /\ thr.wpc = "acquire"
    /\ CanAcquire(lock)
    /\ lock' = "warm"
    /\ thr' = [thr EXCEPT !.wpc = "clear"]
    /\ UNCHANGED <<clock, cache, memV, dataV, phase, warm, nops, resp, calls, lastSet>>

\* _stats_cache.clear()
W_Clear ==
    /\ thr.wpc = "clear"
    /\ stats_cache' = EmptyMap
    /\ thr' = [thr EXCEPT !.wpc = "update", !.preSwap = stats_cache]
    /\ UNCHANGED <<clock, cache, players_cache, cache_file, dataV, phase, warm, nops,
                   resp, calls, lastSet, lock>>

\* _stats_cache.update(cache_out)
W_Update ==
    /\ thr.wpc = "update"
    /\ stats_cache' = MapUpdate(stats_cache, thr.cache_out)
    /\ thr' = [thr EXCEPT !.wpc = "release"]
    /\ UNCHANGED <<clock, cache, players_cache, cache_file, dataV, phase, warm, nops,
                   resp, calls, lastSet, lock>>

\* leaving the with block; the thread ends
W_Release ==
    /\ thr.wpc = "release"
    /\ lock' = "free"
    /\ thr' = [thr EXCEPT !.wpc = "done"]
    /\ warm' = "done"
    /\ UNCHANGED <<clock, cache, memV, dataV, phase, nops, resp, calls, lastSet>>

\* get_player(player_name, years=None) up to the expiring-cache lookup
R_Start(r) ==
    /\ phase = "serving"
    /\ nops < MaxOps
    /\ thr.rd[r].pc = "idle"
    /\ \E name \in PlayerNames :
        \E got \in {cache_get(cache, player_key(name, None), monotonic)} :
            /\ cache' = got.store
            /\ IF got.data # None
               THEN /\ resp' = [op |-> "get_player", name |-> name, years |-> None,
                                status |-> 200, body |-> got.data, tier |-> "cache",
                                by |-> r]
                    /\ calls' = <<>>
                    /\ thr' = thr
               ELSE /\ thr' = [thr EXCEPT !.rd[r] = [@ EXCEPT !.pc = "acquire_get",
                                                             !.name = name,
                                                             !.cached_stats = None,
                                                             !.data = EmptyMap]]
                    /\ UNCHANGED <<resp, calls>>
    /\ nops' = nops + 1
    /\ UNCHANGED <<clock, memV, dataV, phase, warm, lastSet, lock>>

\* with _stats_cache_lock:
R_AcquireGet(r) ==
    /\ thr.rd[r].pc = "acquire_get"
    /\ CanAcquire(lock)
    /\ lock' = r
    /\ thr' = [thr EXCEPT !.rd[r].pc = "get"]
    /\ UNCHANGED <<clock, cache, memV, dataV, phase, warm, nops, resp, calls, lastSet>>

\* cached_stats = _stats_cache.get(player_name); seen and when record the
\* map the lookup read and where the warm-up thread was
R_Get(r) ==
    /\ thr.rd[r].pc = "get"
    /\ thr' = [thr EXCEPT !.rd[r] =
                  [@ EXCEPT !.pc = "release_get",
                            !.cached_stats = IF thr.rd[r].name \in DOMAIN stats_cache
                                             THEN stats_cache[thr.rd[r].name] ELSE None,
                            !.seen = stats_cache,
                            !.when = IF thr.wpc = "update" THEN "during"
                                     ELSE IF thr.wpc \in {"release", "done"}
                                     THEN "after" ELSE "before"]]
    /\ UNCHANGED <<clock, cache, memV, dataV, phase, warm, nops, resp, calls, lastSet,
                   lock>>

R_ReleaseGet(r) ==
    /\ thr.rd[r].pc = "release_get"
    /\ lock' = "free"
    /\ thr' = [thr EXCEPT !.rd[r].pc = "after_get"]
    /\ UNCHANGED <<clock, cache, memV, dataV, phase, warm, nops, resp, calls, lastSet>>

\* if not cached_stats and os.path.exists(CACHE_FILE): json.load, data.get
R_ReadFile(r) ==
    /\ thr.rd[r].pc = "after_get"
    /\ thr.rd[r].cached_stats = None
    /\ cache_file.exists
    /\ \E okFile \in BOOLEAN :
        LET data == IF okFile /\ ~cache_file.corrupt THEN cache_file.data ELSE EmptyMap
            found == IF thr.rd[r].name \in DOMAIN data THEN data[thr.rd[r].name] ELSE None
        IN  thr' = [thr EXCEPT !.rd[r] =
                       [@ EXCEPT !.pc = IF found # None THEN "acquire_update" ELSE "respond",
                                 !.cached_stats = found,
                                 !.data = data]]
    /\ UNCHANGED <<clock, cache, memV, dataV, phase, warm, nops, resp, calls, lastSet,
                   lock>>

R_AcquireUpdate(r) ==
    /\ thr.rd[r].pc = "acquire_update"
    /\ CanAcquire(lock)
    /\ lock' = r
    /\ thr' = [thr EXCEPT !.rd[r].pc = "update"]
    /\ UNCHANGED <<clock, cache, memV, dataV, phase, warm, nops, resp, calls, lastSet>>

\* _stats_cache.update(data), and leaving the with block
R_Update(r) ==
    /\ thr.rd[r].pc = "update"
    /\ stats_cache' = MapUpdate(stats_cache, thr.rd[r].data)
    /\ lock' = "free"
    /\ thr' = [thr EXCEPT !.rd[r].pc = "respond"]
    /\ UNCHANGED <<clock, cache, players_cache, cache_file, dataV, phase, warm, nops,
                   resp, calls, lastSet>>

\* the rest of the handler: the precomputed summary, or the live path
R_Respond(r) ==
    /\ \/ thr.rd[r].pc = "respond"
       \/ /\ thr.rd[r].pc = "after_get"
          /\ ~(thr.rd[r].cached_stats = None /\ cache_file.exists)
    /\ LET me == thr.rd[r]
           key == player_key(me.name, None)
       IN  \E okRpc \in BOOLEAN, failAt \in 0..1 :
            \E live \in {IF me.cached_stats # None
                         THEN [status |-> 200, body |-> me.cached_stats,
                               tier |-> "precompute",
                               cache |-> cache_set(cache, key, me.cached_stats,
                                                   PrecomputeTtl, monotonic),
                               calls |-> <<>>]
                         ELSE player_live(cache, key, me.name,
                                          rpc_get_player_stats(db, me.name, None), okRpc,
                                          collect_player_pages(rows_of(db, me.name, None),
                                                               <<>>, 0, 0, failAt))} :
                /\ cache' = live.cache
                /\ calls' = live.calls
                /\ resp' = [op |-> "get_player", name |-> me.name, years |-> None,
                            status |-> live.status, body |-> live.body,
                            tier |-> live.tier, by |-> r]
    /\ thr' = [thr EXCEPT !.rd[r].pc = "idle"]
    /\ UNCHANGED <<clock, memV, dataV, phase, warm, nops, lastSet, lock>>

Reader(r) ==
    \/ R_Start(r) \/ R_AcquireGet(r) \/ R_Get(r) \/ R_ReleaseGet(r)
    \/ R_ReadFile(r) \/ R_AcquireUpdate(r) \/ R_Update(r) \/ R_Respond(r)

WarmThread ==
    W_Compute \/ W_Open \/ W_Dump \/ W_Acquire \/ W_Clear \/ W_Update \/ W_Release

NextWarm == StartupWarm \/ WarmThread \/ (\E r \in Readers : Reader(r))

SpecWarm == InitPlayer /\ [][NextWarm]_vars

----------------------------------------------------------------------------
(* Specification SpecRestart: the same threads in a process that starts with
   the durable file an earlier run left, written from an earlier table *)

EarlierDb == <<RowA4, RowA6, RowA24>>

\* the file an earlier warm-up wrote
EarlierFile ==
    [exists |-> TRUE, corrupt |-> FALSE,
     data |-> warm_cache_out(EarlierDb, tbl_of(<<>>, EarlierDb), PlayerNames)]

InitRestart ==
    /\ clock = 0
    /\ cache = EmptyMap
    /\ players_cache = [data |-> <<>>, fetched_at |-> 0]
    /\ stats_cache = EmptyMap
    /\ cache_file = EarlierFile
    /\ tbl = <<>>
    /\ db \in DbSamples
    /\ phase = "boot"
    /\ warm = "off"
    /\ lock = "free"
    /\ thr = NoThreads
    /\ nops = 0
    /\ resp = [op |-> "init"]
    /\ calls = <<>>
    /\ lastSet = EmptyMap

SpecRestart == InitRestart /\ [][NextWarm]_vars

----------------------------------------------------------------------------
(* Specification SpecRewarm: requests and the warm-up, each run as one step,
   in a process that starts with the durable file of an earlier run *)

SpecRewarm == InitRestart /\ [][NextStats]_vars

----------------------------------------------------------------------------
(* Specification SpecKeys: the cache keys of compare_players and
   get_player_shots for pairs of requests *)

\* player names, with and without the delimiter of the keys
KeyNames == {<<"A">>, <<"B">>, <<"C">>, <<"A", "|", "B">>, <<"B", "|", "C">>}

KeyRequests ==
    [player1 : KeyNames, player2 : KeyNames, years : YearsArgs, limit : ShotLimits]

\* the keys two requests are looked up and stored under
BuildKeys ==
    /\ resp.op = "init"
    /\ \E a \in KeyRequests, b \in KeyRequests :
        resp' = [op |-> "cache_key", a |-> a, b |-> b,
                 compare |-> <<compare_key(a.player1, a.player2, a.years),
                               compare_key(b.player1, b.player2, b.years)>>,
                 shots |-> <<shots_key(a.player1, a.years, a.limit),
                             shots_key(b.player1, b.years, b.limit)>>]
    /\ UNCHANGED <<clock, cache, memV, dataV, procV, nops, calls, lastSet>>

NextKeys == BuildKeys

SpecKeys == InitCache /\ [][NextKeys]_vars

----------------------------------------------------------------------------
(* Properties of the warm-up swap (SpecWarm) *)

\* C3: no precompute lookup of a request happens between the warm-up's clear
\* and its update; a lookup made once the swap is done reads a map holding
\* every newly computed summary, and while the warm-up thread is inside its
\* locked block no request is inside a lookup.
C3_SwapIsAtomic ==
    \A r \in Readers :
        LET me == thr.rd[r]
        IN  /\ me.when # "during"
            /\ me.when = "after" =>
                   \A k \in DOMAIN thr.cache_out :
                       k \in DOMAIN me.seen /\ me.seen[k] = thr.cache_out[k]
            /\ me.pc = "get" => thr.wpc \notin {"clear", "update", "release"}

\* the map is cleared and not yet refilled, it held summaries before, and a
\* request is waiting to look a player up
C3_Witness ==
    /\ thr.wpc = "update"
    /\ stats_cache = EmptyMap
    /\ thr.preSwap # EmptyMap
    /\ thr.cache_out # EmptyMap
    /\ \E r \in Readers : thr.rd[r].pc = "acquire_get"

----------------------------------------------------------------------------
(* Properties of get_player (SpecStats, SpecRows) *)

\* the calls the last handler made to the backing store, by outcome
CallsTo(fn, ok) == {i \in 1..Len(calls) : calls[i].fn = fn /\ calls[i].ok = ok}
FailedCalls == {i \in 1..Len(calls) : ~calls[i].ok}

\* s is t with some elements left out
IsSubSeq(s, t) ==
    \E f \in [1..Len(s) -> 1..Len(t)] :
        /\ \A i \in 1..Len(s) : s[i] = t[f[i]]
        /\ \A i, j \in 1..Len(s) : i < j => f[i] < f[j]

\* C4: get_player consults its tiers in the order cache, precompute cache,
\* aggregation call, paged raw rows; it reads raw rows and aggregates them
\* locally only after the aggregation call failed, never after it succeeded,
\* with or without data.
C4_TierOrder ==
    resp.op = "get_player" =>
        /\ IsSubSeq(resp.tiers, <<"cache", "precompute", "rpc", "fallback">>)
        /\ resp.tiers[1] = "cache"
        /\ (resp.tier # "cache" /\ resp.years = None) => resp.tiers[2] = "precompute"
        /\ \A i \in CallsTo("shots", TRUE) \cup CallsTo("shots", FALSE) :
               \E j \in CallsTo("get_player_stats", FALSE) : j < i
        /\ CallsTo("get_player_stats", TRUE) # {} =>
               /\ \A i \in 1..Len(calls) : calls[i].fn # "shots"
               /\ resp.tier # "fallback"
        /\ resp.tier = "fallback" => CallsTo("get_player_stats", FALSE) # {}

\* the aggregation call succeeded with no data for a player without rows, the
\* precompute cache having been looked up first, and no raw rows were read
C4_Witness ==
    /\ resp.op = "get_player"
    /\ resp.tiers = <<"cache", "precompute", "rpc">>
    /\ resp.status = 404
    /\ stats_cache # EmptyMap
    /\ calls = <<[fn |-> "get_player_stats", ok |-> TRUE]>>

C10_Totals ==
    (resp.op = "get_player" /\ resp.tier = "fallback" /\ resp.status # 500) =>
        LET R == rows_of(db, resp.name, resp.years)
            made == Cardinality({i \in 1..Len(R) : R[i].shot_made_flag})
            err == 1000 * made - resp.body.fg_pct * Len(R)
        IN  IF R = <<>>
            THEN resp.status = 404 /\ resp.body.player = resp.name
            ELSE /\ resp.status = 200
                 /\ resp.body = compute_stats_from_rows(R)
                 /\ resp.body.total_shots = Len(R)
                 /\ resp.body.made_shots = made
                 /\ 2 * err <= Len(R) /\ 2 * (0 - err) <= Len(R)

\* two of three shots made: fg_pct is 0.667
C10_Witness ==
    /\ resp.op = "get_player"
    /\ resp.tier = "fallback"
    /\ resp.status = 200
    /\ resp.body.total_shots = 3
    /\ resp.body.made_shots = 2
    /\ resp.body.fg_pct = 667

----------------------------------------------------------------------------
(* Properties of compare_players and get_years (SpecPlayer) *)

\* C6: no response of a handler carries the backing store's own error
C6_NoStoreError ==
    resp.op \in {"get_players", "get_years", "get_player", "get_player_shots",
                 "get_player_shots_page", "get_player_shots_binned", "compare_players"}
        => ~("error" \in DOMAIN resp.body /\ resp.body.error = TransportError)

IsAscending(ys) == \A i, j \in 1..Len(ys) : i < j => ys[i] < ys[j]

\* C8: get_years returns the years in ascending order, computed or cached
C8_YearsAscending == resp.op = "get_years" => IsAscending(resp.body.years)

\* an entry of the cache c that cache_get would still return at time now
Unexpired(c, k, now) == k \in DOMAIN c /\ ~(now > c[k].expires_at)

\* C9: comparing a player with rows against a player without, the
\* aggregation calls succeeding, answers 404 naming player2, writes no cache
\* entry and leaves every entry of the cache as it was, so that get_player
\* of player1 answers the same before and after.
C9_CompareMissingSecond ==
    (/\ resp.op = "compare_players"
     /\ FailedCalls = {}
     /\ rows_of(db, resp.player1, resp.years) # <<>>
     /\ rows_of(db, resp.player2, resp.years) = <<>>) =>
        /\ resp.status = 404
        /\ resp.body = NotFound(resp.player2).body
        /\ DOMAIN cache \subseteq DOMAIN resp.before
        /\ \A k \in DOMAIN resp.before :
               Unexpired(resp.before, k, resp.at) => (k \in DOMAIN cache /\ cache[k] = resp.before[k])
        /\ \A ok \in BOOLEAN, failAt \in 0..1 :
               LET was == get_player(resp.before, stats_cache, cache_file, db,
                                     resp.player1, resp.years, TRUE, ok, failAt)
                   now == get_player(cache, stats_cache, cache_file, db,
                                     resp.player1, resp.years, TRUE, ok, failAt)
               IN  was.status = now.status /\ was.body = now.body

\* the compare failed for player2 while the cache held player1's summary
C9_Witness ==
    /\ resp.op = "compare_players"
    /\ resp.status = 404
    /\ resp.body.player = resp.player2
    /\ resp.player1 # resp.player2
    /\ FailedCalls = {}
    /\ Unexpired(cache, player_key(resp.player1, resp.years), clock)
    /\ cache = resp.before

----------------------------------------------------------------------------
(* Properties of the list-shaped handlers (SpecLists) *)

\* the last handler called the backing store and every call failed
AllCallsFailed == calls # <<>> /\ \A i \in 1..Len(calls) : ~calls[i].ok

\* what the shot-list handlers answer when their calls fail
EmptyShotLists ==
    /\ resp.op = "get_player_shots" => resp.body = [shots |-> <<>>, total |-> 0]
    /\ resp.op = "get_player_shots_page" =>
           resp.body = [shots |-> <<>>, count |-> 0, page |-> Max(1, resp.page),
                        page_size |-> Max(100, Min(resp.page_size, 5000))]
    /\ resp.op = "get_player_shots_binned" => resp.body = [bins |-> <<>>]

ListOps == {"get_players", "get_player_shots", "get_player_shots_page",
            "get_player_shots_binned"}

----------------------------------------------------------------------------
(* Properties of _compute_stats_from_rows (SpecAgg, SpecRows) *)

ZoneLabels ==
    {"Paint (0-5ft)", "Short (5-10ft)", "Mid (10-15ft)", "Long 2 (15-22ft)", "3PT (22+ft)"}

\* the square of the distance of a row, <<>> when the row has neither a
\* distance nor both coordinates
DistSquared(r) ==
    IF r.shot_distance # <<>> THEN <<r.shot_distance[1] * r.shot_distance[1]>>
    ELSE IF r.loc_x # <<>> /\ r.loc_y # <<>>
    THEN <<r.loc_x[1] * r.loc_x[1] + r.loc_y[1] * r.loc_y[1]>>
    ELSE <<>>

\* row r belongs to zone L
InZone(r, L) ==
    LET q == DistSquared(r)
    IN  IF q = <<>> THEN L = "3PT (22+ft)"
        ELSE \/ L = "Paint (0-5ft)" /\ q[1] <= 25
             \/ L = "Short (5-10ft)" /\ 25 < q[1] /\ q[1] <= 100
             \/ L = "Mid (10-15ft)" /\ 100 < q[1] /\ q[1] <= 225
             \/ L = "Long 2 (15-22ft)" /\ 225 < q[1] /\ q[1] <= 484
             \/ L = "3PT (22+ft)" /\ 484 < q[1]

\* C11: every row is counted in exactly one of the five zones: a distance of
\* exactly 5, 10, 15 or 22 in the nearer bucket, a distance above 22 or no
\* distance and no usable coordinates in "3PT (22+ft)".
C11_ZonesTotalExclusive ==
    (resp.op = "compute_stats_from_rows" /\ resp.rows # <<>>) =>
        LET R == resp.rows
            Z == resp.out.zones
        IN  /\ \A i \in 1..Len(Z) : Z[i].label \in ZoneLabels
            /\ \A i, j \in 1..Len(Z) : Z[i].label = Z[j].label => i = j
            /\ \A L \in ZoneLabels :
                   LET mine == {i \in 1..Len(R) : InZone(R[i], L)}
                   IN  IF mine = {} THEN \A i \in 1..Len(Z) : Z[i].label # L
                       ELSE \E i \in 1..Len(Z) :
                               /\ Z[i].label = L
                               /\ Z[i].attempts = Cardinality(mine)
                               /\ Z[i].made =
                                      Cardinality({k \in mine : R[k].shot_made_flag})
            /\ SumSeq([i \in 1..Len(Z) |-> Z[i].attempts]) = Len(R)

\* a row at distance exactly 5 and a row without distance or coordinates
C11_Witness ==
    /\ resp.op = "compute_stats_from_rows"
    /\ Len(resp.rows) = 2
    /\ resp.rows[1].shot_distance = <<5>>
    /\ resp.rows[2].shot_distance = <<>> /\ resp.rows[2].loc_x = <<>>
    /\ \E i, j \in 1..Len(resp.out.zones) :
           /\ resp.out.zones[i].label = "Paint (0-5ft)"
           /\ resp.out.zones[j].label = "3PT (22+ft)"

\* the action type a row is counted under
ActionOf(r) == IF r.action_type # "" THEN r.action_type ELSE "Other"

\* C12: the action-type breakdown has at most 10 entries, in descending order
\* of attempts, action types with equal attempts in the order they were first
\* met in the rows; when there are more than 10 action types it holds the
\* first 10 of that order.
C12_TopTenActions ==
    (resp.op = "compute_stats_from_rows" /\ resp.rows # <<>>) =>
        LET R == resp.rows
            A == resp.out.actions
            Types == {ActionOf(R[i]) : i \in 1..Len(R)}
            Rows(a) == {i \in 1..Len(R) : ActionOf(R[i]) = a}
            First(a) == CHOOSE i \in Rows(a) : \A j \in Rows(a) : i <= j
            Before(a, b) ==
                \/ Cardinality(Rows(a)) > Cardinality(Rows(b))
                \/ Cardinality(Rows(a)) = Cardinality(Rows(b)) /\ First(a) < First(b)
        IN  /\ Len(A) <= 10
            /\ Len(A) = Min(10, Cardinality(Types))
            /\ \A i \in 1..Len(A) :
                   /\ A[i].label \in Types
                   /\ A[i].attempts = Cardinality(Rows(A[i].label))
                   /\ A[i].made =
                          Cardinality({k \in Rows(A[i].label) : R[k].shot_made_flag})
            /\ \A i, j \in 1..Len(A) : i < j =>
                   /\ A[i].attempts >= A[j].attempts
                   /\ Before(A[i].label, A[j].label)
            /\ \A a \in Types :
                   (\A i \in 1..Len(A) : A[i].label # a) =>
                       \A i \in 1..Len(A) : Before(A[i].label, a)

\* more than 10 action types, the cut falling among types with one attempt each
C12_Witness ==
    /\ resp.op = "compute_stats_from_rows"
    /\ Cardinality({ActionOf(resp.rows[i]) : i \in 1..Len(resp.rows)}) > 10
    /\ Len(resp.out.actions) = 10
    /\ resp.out.actions[1].attempts = 2
    /\ resp.out.actions[9].attempts = 1
    /\ resp.out.actions[10].attempts = 1

\* the rows are exactly the three shots of the scenario, in any order
ThreeShots(R) ==
    /\ Len(R) = 3
    /\ {R[i] : i \in 1..3} = {RowA4, RowA6, RowA24}

\* C13: with exactly three shots for a player (made at distance 4, made at
\* distance 6, missed at distance 24), get_player answered by the raw-row
\* aggregation returns total_shots 3, made_shots 2, fg_pct 0.667 and exactly
\* the zones Paint 1/1, Short 1/1 and 3PT 1/0.
C13_ThreeShotScenario ==
    (/\ resp.op = "get_player"
     /\ resp.tier = "fallback"
     /\ resp.status # 500
     /\ ThreeShots(rows_of(db, resp.name, resp.years))) =>
        /\ resp.status = 200
        /\ resp.body.total_shots = 3
        /\ resp.body.made_shots = 2
        /\ resp.body.fg_pct = 667
        /\ Len(resp.body.zones) = 3
        /\ {[label |-> z.label, attempts |-> z.attempts, made |-> z.made] :
                z \in {resp.body.zones[i] : i \in 1..Len(resp.body.zones)}}
           = {[label |-> "Paint (0-5ft)", attempts |-> 1, made |-> 1],
              [label |-> "Short (5-10ft)", attempts |-> 1, made |-> 1],
              [label |-> "3PT (22+ft)", attempts |-> 1, made |-> 0]}

\* the scenario answered by the raw-row aggregation, the missed shot first
C13_Witness ==
    /\ resp.op = "get_player"
    /\ resp.tier = "fallback"
    /\ resp.status = 200
    /\ db = <<RowA24, RowA4, RowA6>>
    /\ resp.name = NameAl
    /\ resp.years = None
    /\ Len(resp.body.zones) = 3

----------------------------------------------------------------------------
(* Properties of the roster filter of get_players (SpecPlayers) *)

\* P is the entries of the snapshot D that satisfy Match and have at least
\* min_shots shots, in descending order of total_shots, cut to limit
IsFilterOf(P, D, Match(_), min_shots, limit) ==
    LET Q == {i \in 1..Len(D) : D[i].total_shots >= min_shots /\ Match(D[i].name)}
    IN  /\ Len(P) = Min(limit, Cardinality(Q))
        /\ \A i \in 1..Len(P) : \E q \in Q : P[i] = D[q]
        /\ \A i, j \in 1..Len(P) : i < j =>
               P[i] # P[j] /\ P[i].total_shots >= P[j].total_shots
        /\ \A q \in Q : (\A i \in 1..Len(P) : P[i] # D[q]) =>
               \A i \in 1..Len(P) : P[i].total_shots >= D[q].total_shots

\* C14 as stated: on a cache miss with a snapshot available, get_players
\* returns the snapshot entries with total_shots >= min_shots whose name
\* contains the search string, compared case-insensitively, in descending
\* order of total_shots, cut to limit.
C14_FilterBySubstring ==
    (resp.op = "get_players" /\ resp.tier = "snapshot") =>
        LET Match(name) == Contains(Lower(resp.search), Lower(name))
        IN  IsFilterOf(resp.body.players, players_cache.data, Match,
                       resp.min_shots, resp.limit)

\* C14: on a cache miss with a snapshot available, get_players returns the
\* snapshot entries with total_shots >= min_shots whose name contains the
\* search string, compared case-insensitively, or every such entry when the
\* search string is empty or holds only whitespace, in descending order of
\* total_shots, cut to limit.
C14_FilterBySubstringOrBlank ==
    (resp.op = "get_players" /\ resp.tier = "snapshot") =>
        LET Match(name) ==
                \/ \A i \in 1..Len(resp.search) : resp.search[i] = " "
                \/ Contains(Lower(resp.search), Lower(name))
        IN  IsFilterOf(resp.body.players, players_cache.data, Match,
                       resp.min_shots, resp.limit)

\* a search of one space answered from the snapshot with players whose names
\* hold no space
C14_Witness ==
    /\ resp.op = "get_players"
    /\ resp.tier = "snapshot"
    /\ resp.search = <<" ">>
    /\ Len(resp.body.players) = 2

\* a lower-case search matching a capital letter, cut by nothing
C14_WitnessCase ==
    /\ resp.op = "get_players"
    /\ resp.tier = "snapshot"
    /\ resp.search = <<"a">>
    /\ Len(resp.body.players) = 1

\* the thresholds min_shots is raised to
RaisedMinShots == {10, 20, 21, 60, 61, 100, 200, 201}

\* C15: the roster filter is idempotent and monotonic: applied with the same
\* search, min_shots and limit to its own output it returns that output, and
\* over the same snapshot, search and limit a higher min_shots never returns
\* more entries.
C15_FilterIdempotentMonotonic ==
    (resp.op = "get_players" /\ resp.tier = "snapshot") =>
        LET out == roster_filter(players_cache.data, resp.search,
                                 resp.min_shots, resp.limit)
        IN  /\ resp.body.players = out
            /\ roster_filter(out, resp.search, resp.min_shots, resp.limit) = out
            /\ \A m1, m2 \in RaisedMinShots \cup {resp.min_shots} : m1 <= m2 =>
                   Len(roster_filter(players_cache.data, resp.search, m2, resp.limit))
                       <= Len(roster_filter(players_cache.data, resp.search, m1, resp.limit))

\* a filter result of two entries that a higher min_shots cuts to one
C15_Witness ==
    /\ resp.op = "get_players"
    /\ resp.tier = "snapshot"
    /\ Len(resp.body.players) = 1
    /\ Len(roster_filter(players_cache.data, resp.search, 10, 100)) = 2
    /\ Len(roster_filter(players_cache.data, resp.search, 61, 100)) = 1
    /\ Len(roster_filter(players_cache.data, resp.search, 201, 100)) = 0

\* C16: when the roster snapshot is present and at most 600 seconds old, a
\* get_players request, answered from the cache or not, makes no backing-store
\* call and leaves the snapshot's data and fetch time as they were.
C16_FreshSnapshotNoStoreCall ==
    (/\ resp.op = "get_players"
     /\ resp.snapshot.data # <<>>
     /\ (Epoch + resp.at) - resp.snapshot.fetched_at <= 600) =>
        /\ calls = <<>>
        /\ players_cache.data = resp.snapshot.data
        /\ players_cache.fetched_at = resp.snapshot.fetched_at

\* a cache miss filtered from a snapshot that is exactly 600 seconds old
C16_Witness ==
    /\ resp.op = "get_players"
    /\ resp.tier = "snapshot"
    /\ resp.snapshot.data # <<>>
    /\ (Epoch + resp.at) - resp.snapshot.fetched_at = 600
    /\ calls = <<>>

\* C17: every player list get_players filters from the snapshot comes from a
\* snapshot fetched at most 600 seconds before the request, also when the
\* refresh get_players attempted failed or returned no data.
C17_SnapshotAtMostTenMinutesOld ==
    (resp.op = "get_players" /\ resp.tier = "snapshot") =>
        (Epoch + resp.at) - players_cache.fetched_at <= 600

----------------------------------------------------------------------------
(* Properties of the shot-list handlers (SpecLists) *)

\* C18: whenever the store returns the rows of a binned request, the attempts
\* of the bins get_player_shots_binned returns add up to the number of those
\* rows that have both coordinates, and no bin has more made than attempts.
C18_BinsCoverRows ==
    (resp.op = "get_player_shots_binned" /\ resp.tier # "none") =>
        LET R == rows_of(db, resp.name, resp.years)
            B == resp.body.bins
        IN  /\ SumSeq([i \in 1..Len(B) |-> B[i].attempts])
                   = Cardinality({i \in 1..Len(R) : R[i].loc_x # <<>> /\ R[i].loc_y # <<>>})
            /\ \A i \in 1..Len(B) : B[i].made <= B[i].attempts

\* C18 for requests whose rows all have both coordinates
C18_BinsCoverCompleteRows ==
    (/\ resp.op = "get_player_shots_binned"
     /\ resp.tier # "none"
     /\ \A i \in 1..Len(rows_of(db, resp.name, resp.years)) :
            /\ rows_of(db, resp.name, resp.years)[i].loc_x # <<>>
            /\ rows_of(db, resp.name, resp.years)[i].loc_y # <<>>) =>
        LET R == rows_of(db, resp.name, resp.years)
            B == resp.body.bins
        IN  /\ SumSeq([i \in 1..Len(B) |-> B[i].attempts]) = Len(R)
            /\ \A i \in 1..Len(B) : B[i].made <= B[i].attempts

\* C19: for every requested page and page_size, zero and negative ones
\* included, get_player_shots_page answers (status 200) with page >= 1 and
\* page_size in 100..5000, the requested values clamped; the query it makes
\* asks for the rows from (page - 1) * page_size, which is not negative, to
\* page_size rows further, and the rows it returns are those rows of the
\* player's shots in year order.
C19_PageClamped ==
    (resp.op = "get_player_shots_page") =>
        LET p == resp.body.page
            s == resp.body.page_size
            S == order_by_year(<<>>, rows_of(db, resp.name, resp.years))
        IN  /\ resp.status = 200
            /\ p >= 1
            /\ p = (IF resp.page < 1 THEN 1 ELSE resp.page)
            /\ s >= 100 /\ s <= 5000
            /\ s = (IF resp.page_size < 100 THEN 100
                    ELSE IF resp.page_size > 5000 THEN 5000 ELSE resp.page_size)
            /\ (resp.tier # "cache") =>
                   /\ Len(calls) = 1
                   /\ resp.range[1] = (p - 1) * s
                   /\ resp.range[1] >= 0
                   /\ resp.range[2] - resp.range[1] + 1 = s
            /\ (resp.tier = "rows") =>
                   /\ resp.body.count = Len(resp.body.shots)
                   /\ Len(resp.body.shots) = Max(0, Min(s, Len(S) - (p - 1) * s))
                   /\ \A i \in 1..Len(resp.body.shots) :
                          resp.body.shots[i] = shot_of(S[(p - 1) * s + i])

\* a negative page and page_size answered with page 1 of 100 rows
C19_Witness ==
    /\ resp.op = "get_player_shots_page"
    /\ resp.page = -1
    /\ resp.page_size = -5
    /\ resp.tier = "rows"
    /\ resp.body.page = 1
    /\ resp.body.page_size = 100
    /\ resp.body.count = 10
    /\ resp.range = <<0, 99>>

\* a page_size above the ceiling answered with the ceiling
C19_WitnessCeiling ==
    /\ resp.op = "get_player_shots_page"
    /\ resp.page_size = 9999
    /\ resp.tier = "rows"
    /\ resp.body.page_size = 5000
    /\ resp.range = <<0, 4999>>

\* a second page that starts after the first 100 rows
C19_WitnessSecondPage ==
    /\ resp.op = "get_player_shots_page"
    /\ resp.page = 2
    /\ resp.page_size = 0
    /\ resp.tier = "rows"
    /\ resp.range = <<100, 199>>
    /\ resp.body.count = 0

----------------------------------------------------------------------------
(* Properties of the cache keys (SpecPlayers) *)

\* year lists that are permutations of each other
PermutedYears ==
    {<<PyList(<<2023, 2024>>), PyList(<<2024, 2023>>)>>,
     <<PyList(<<2022, 2023, 2024>>), PyList(<<2023, 2024, 2022>>)>>}

\* C20: semantically identical requests use one cache key: a get_players
\* request uses the key of every request that differs from it only in the
\* letter case of the search term, and player, shots, page, bins and compare
\* requests whose year lists are permutations of each other use one key.
C20_IdenticalRequestsShareKey ==
    (resp.op = "get_players") =>
        /\ \A req \in PlayersRequests :
               (/\ Lower(req.search) = Lower(resp.search)
                /\ req.min_shots = resp.min_shots
                /\ req.limit = resp.limit) =>
                   players_key(req.search, req.min_shots, req.limit)
                       = players_key(resp.search, resp.min_shots, resp.limit)
        /\ \A ys \in PermutedYears, n \in PlayerNames :
               /\ player_key(n, ys[1]) = player_key(n, ys[2])
               /\ shots_key(n, ys[1], resp.limit) = shots_key(n, ys[2], resp.limit)
               /\ shots_page_key(n, ys[1], 1, 100) = shots_page_key(n, ys[2], 1, 100)
               /\ shots_bins_key(n, ys[1], 25, 20) = shots_bins_key(n, ys[2], 25, 20)
               /\ compare_key(NameAl, NameBo, ys[1]) = compare_key(NameAl, NameBo, ys[2])

\* the search-term half of C20 as behaviour: a request that differs only in
\* letter case from one whose answer is cached and not expired is answered
\* from the cache
C20_CaseVariantHitsCache ==
    (/\ resp.op = "get_players"
     /\ \E req \in PlayersRequests :
            /\ Lower(req.search) = Lower(resp.search)
            /\ req.min_shots = resp.min_shots /\ req.limit = resp.limit
            /\ Unexpired(resp.before,
                         players_key(req.search, req.min_shots, req.limit), resp.at))
        => resp.tier = "cache"

----------------------------------------------------------------------------
(* Properties of the handlers' use of the expiring cache *)

\* the cache holds data under key k, not yet expired at the time of the reply
CachedAs(k, data) ==
    /\ k \in DOMAIN cache
    /\ cache[k].data = data
    /\ ~(resp.at > cache[k].expires_at)

\* C21: a successful response computed on a cache miss, by whichever tier of
\* the fallback chain, is stored in the cache under the key of the request
\* (here: get_players answered by the snapshot, the aggregation call or the
\* sample aggregation).
C21_MissResultIsCached ==
    (resp.op = "get_players" /\ resp.tier \in {"snapshot", "rpc", "sample"}) =>
        CachedAs(players_key(resp.search, resp.min_shots, resp.limit),
                 PyList(resp.body.players))

\* C21 for the tiers of get_players other than the sample aggregation
C21_MissResultIsCachedBySnapshotAndRpc ==
    (resp.op = "get_players" /\ resp.tier \in {"snapshot", "rpc"}) =>
        CachedAs(players_key(resp.search, resp.min_shots, resp.limit),
                 PyList(resp.body.players))

\* C23: cache_get never evicts an unexpired entry, whatever the interleaving
\* of concurrent calls: an entry stored by the latest cache_set of its key
\* stays in the store while it has not expired.
C23_UnexpiredNeverEvicted ==
    \A k \in DOMAIN lastSet :
        ~(clock > lastSet[k].at + lastSet[k].ttl) => k \in DOMAIN cache

\* C24: once the warm-up has swapped its newly computed map into memory, the
\* map holds every newly computed summary and keeps holding it: no request
\* puts older content back over it.
C24_NoStaleMergeAfterSwap ==
    (thr.wpc \in {"release", "done"}) =>
        \A k \in DOMAIN thr.cache_out :
            k \in DOMAIN stats_cache /\ stats_cache[k] = thr.cache_out[k]

----------------------------------------------------------------------------
(* Properties of the precompute cache (SpecStats) *)

\* C22: the precompute subsystem never fails a request.  A get_player that
\* finds the durable file unreadable or corrupt goes on to the live
\* aggregation call, and answers what that call answers.  A warm-up whose
\* roster call succeeded installs in memory the summary of every player with
\* shots whose own aggregation call succeeded, and only those, whether or not
\* the file could be written.
C22_PrecomputeNeverRaises ==
    /\ (/\ resp.op = "get_player"
        /\ resp.readFile
        /\ (resp.fileFailed \/ cache_file.corrupt)) =>
            /\ resp.tier \in {"rpc", "fallback"}
            /\ calls # <<>>
            /\ calls[1].fn = "get_player_stats"
            /\ calls[1].ok => resp.status \in {200, 404}
            /\ (calls[1].ok /\ rows_of(db, resp.name, None) # <<>>) =>
                   resp.status = 200 /\ resp.tier = "rpc"
    /\ (resp.op = "warm_stats_cache" /\ resp.okRoster) =>
            /\ DOMAIN stats_cache =
                   {n \in resp.okPlayers : rows_of(db, n, None) # <<>>}
            /\ \A n \in DOMAIN stats_cache :
                   stats_cache[n] = rpc_get_player_stats(db, n, None)
            /\ (resp.wr = "partial") => cache_file.corrupt
            /\ (resp.wr = "ok") => cache_file.data = stats_cache

\* a warm-up that lost one player's call and the file write, and installed
\* the other player's summary
C22_Witness ==
    /\ resp.op = "warm_stats_cache"
    /\ resp.okRoster
    /\ resp.okPlayers = {NameAl}
    /\ resp.wr = "open_failed"
    /\ rows_of(db, NameBo, None) # <<>>
    /\ DOMAIN stats_cache = {NameAl}
    /\ ~cache_file.exists

\* a get_player that met a corrupt file and was answered by the live call
C22_WitnessCorruptFile ==
    /\ resp.op = "get_player"
    /\ resp.readFile
    /\ cache_file.corrupt
    /\ ~resp.fileFailed
    /\ resp.tier = "rpc"
    /\ resp.status = 200

----------------------------------------------------------------------------
(* Properties of the precompute lookup of get_player (SpecStats) *)

\* C28: the durable file is loaded at most once per process: a get_player
\* request that follows one that read and parsed the file does not read the
\* file again, whichever player it asks for.
C28_FileReadAtMostOnce ==
    [][(/\ resp.op = "get_player"
        /\ resp.readFile
        /\ ~resp.fileFailed
        /\ ~cache_file.corrupt
        /\ nops' = nops + 1
        /\ resp'.op = "get_player") => ~resp'.readFile]_vars

\* C29: a get_player request with a year filter is never answered from the
\* all-years precompute cache, neither the map nor the file, and an all-years
\* precomputed summary is never stored under the key of a year-filtered
\* request: such a key only ever holds a summary of the filtered rows.
C29_YearFilterBypassesPrecompute ==
    /\ (resp.op = "get_player" /\ resp.years # None) =>
           /\ resp.tier # "precompute"
           /\ ~resp.readFile
           /\ \A i \in 1..Len(resp.tiers) : resp.tiers[i] # "precompute"
           /\ resp.status = 200 =>
                  resp.body \in {rpc_get_player_stats(db, resp.name, resp.years),
                                 compute_stats_from_rows(
                                     rows_of(db, resp.name, resp.years))}
    /\ (resp.op = "get_player" /\ resp.tier = "precompute") =>
           /\ resp.years = None
           /\ \A k \in DOMAIN cache :
                  k # player_key(resp.name, None) =>
                      k \in DOMAIN resp.before /\ cache[k] = resp.before[k]
    /\ \A n \in PlayerNames, ys \in YearsArgs \ {None} :
           player_key(n, ys) \in DOMAIN cache =>
               cache[player_key(n, ys)].data
                   \in {rpc_get_player_stats(db, n, ys),
                        compute_stats_from_rows(rows_of(db, n, ys))}

\* a year-filtered request for a player whose all-years summary is in the
\* in-memory map, answered by the aggregation call with another summary
C29_Witness ==
    /\ resp.op = "get_player"
    /\ resp.years # None
    /\ resp.name \in DOMAIN stats_cache
    /\ resp.tier = "rpc"
    /\ resp.status = 200
    /\ stats_cache[resp.name] # resp.body
    /\ player_key(resp.name, resp.years) \in DOMAIN cache

----------------------------------------------------------------------------
(* Properties of the cache keys of two requests (SpecKeys) *)

\* C25: two compare_players requests with different (player1, player2, years)
\* never share a cache key, and two get_player_shots requests with different
\* (player_name, years, limit) never share one, also when a player name
\* contains the delimiter "|".
C25_DistinctRequestsDistinctKeys ==
    (resp.op = "cache_key") =>
        /\ (<<resp.a.player1, resp.a.player2, resp.a.years>>
                # <<resp.b.player1, resp.b.player2, resp.b.years>>)
               => resp.compare[1] # resp.compare[2]
        /\ (<<resp.a.player1, resp.a.years, resp.a.limit>>
                # <<resp.b.player1, resp.b.years, resp.b.limit>>)
               => resp.shots[1] # resp.shots[2]

\* C25 for get_player_shots alone, the years given as a list of numbers
C25_ShotsKeysDistinct ==
    (/\ resp.op = "cache_key"
     /\ <<resp.a.player1, resp.a.years, resp.a.limit>>
            # <<resp.b.player1, resp.b.years, resp.b.limit>>)
        => resp.shots[1] # resp.shots[2]

----------------------------------------------------------------------------
(* Properties of the expiring cache store (SpecCache) *)

\* C26: an entry is visible only while the time is strictly before its
\* expiry: a cache_get(k) made at or after the set time + ttl of the latest
\* cache_set of k, ttl = 0 included, returns None.
C26_AbsentFromExpiryOn ==
    (resp.op = "cache_get" /\ resp.key \in DOMAIN lastSet) =>
        LET s == lastSet[resp.key]
        IN  (resp.at >= s.at + s.ttl) => resp.data = None

\* C26 for the times strictly after the expiry
C26_AbsentAfterExpiry ==
    (resp.op = "cache_get" /\ resp.key \in DOMAIN lastSet) =>
        LET s == lastSet[resp.key]
        IN  (resp.at > s.at + s.ttl) => resp.data = None

\* a step that is a cache_get made now on the present store
IsGetStep ==
    /\ resp'.op = "cache_get"
    /\ resp'.before = cache
    /\ resp'.at = clock
    /\ clock' = clock

\* C27: cache_get(k) on an expired key (the time is past its expiry) removes
\* the entry of k and no other entry; cache_get on an unexpired or missing key
\* leaves the whole store as it is; and no entry leaves the store except by a
\* cache_get of its own key.
C27_GetRemovesOnlyItsExpiredKey ==
    [][/\ \A k \in DOMAIN cache :
              (k \notin DOMAIN cache') =>
                  /\ IsGetStep
                  /\ resp'.key = k
                  /\ clock > cache[k].expires_at
       /\ IsGetStep =>
              IF resp'.key \in DOMAIN cache /\ clock > cache[resp'.key].expires_at
              THEN /\ DOMAIN cache' = DOMAIN cache \ {resp'.key}
                   /\ \A j \in DOMAIN cache' : cache'[j] = cache[j]
                   /\ resp'.data = None
              ELSE cache' = cache
      ]_vars

\* a cache_get that removed its expired key and left another expired entry
\* in the store
C27_Witness ==
    /\ resp.op = "cache_get"
    /\ resp.key \in DOMAIN resp.before
    /\ resp.at > resp.before[resp.key].expires_at
    /\ resp.key \notin DOMAIN cache
    /\ \E j \in DOMAIN cache : clock > cache[j].expires_at /\ clock = resp.at

----------------------------------------------------------------------------
(* Properties of the handlers' degraded responses (SpecServe) *)

\* the cache key of the request the last response answers
RequestKey ==
    IF resp.op = "get_players"
    THEN players_key(resp.search, resp.min_shots, resp.limit)
    ELSE IF resp.op = "get_years" THEN years_key
    ELSE IF resp.op = "get_player" THEN player_key(resp.name, resp.years)
    ELSE IF resp.op = "compare_players"
    THEN compare_key(resp.player1, resp.player2, resp.years)
    ELSE IF resp.op = "get_player_shots"
    THEN shots_key(resp.name, resp.years, resp.limit)
    ELSE IF resp.op = "get_player_shots_page"
    THEN shots_page_key(resp.name, resp.years, resp.body.page, resp.body.page_size)
    ELSE shots_bins_key(resp.name, resp.years, resp.x_bins, resp.y_bins)

HandlerOps ==
    {"get_players", "get_years", "get_player", "compare_players", "get_player_shots",
     "get_player_shots_page", "get_player_shots_binned"}

\* the last response is the degraded one of a failed backing-store call: the
\* empty result of a handler whose calls failed, or an error status
IsDegraded ==
    /\ resp.op \in HandlerOps
    /\ \/ resp.status \in {404, 500}
       \/ resp.tier = "none" /\ FailedCalls # {}

\* C30: a degraded response produced because a backing-store call failed is
\* never written to the cache: the cache holds no entry under the key of the
\* request and every entry it holds is one it held before, so the identical
\* request that follows is not answered from the cache.
C30_DegradedNeverCached ==
    IsDegraded =>
        /\ RequestKey \notin DOMAIN cache
        /\ \A k \in DOMAIN cache : k \in DOMAIN resp.before /\ cache[k] = resp.before[k]

\* an empty list answered after a failed call, with the cache left empty of
\* the request's key although it holds another entry
C30_Witness ==
    /\ IsDegraded
    /\ resp.tier = "none"
    /\ resp.status = 200
    /\ cache # EmptyMap
    /\ RequestKey \notin DOMAIN cache

----------------------------------------------------------------------------
(* Properties of a completed warm-up (SpecRewarm) *)

\* the last step is a warm-up that got its roster
WarmCompleted == resp.op = "warm_stats_cache" /\ resp.okRoster

\* the roster players whose aggregation call returned data
WarmedPlayers ==
    LET roster == rpc_get_players_with_stats(StoreTbl, <<>>, WarmMinShots, WarmLimit)
    IN  {n \in resp.okPlayers :
            /\ \E i \in 1..Len(roster) : roster[i].name = n
            /\ rpc_get_player_stats(db, n, None) # NoStats}

\* the precompute map holds the summary of each warmed player and nothing else
MapIsWarmed ==
    /\ DOMAIN stats_cache = WarmedPlayers
    /\ \A n \in WarmedPlayers : stats_cache[n] = rpc_get_player_stats(db, n, None)

\* C31 (as stated): after a warm-up that ran alone, the precompute map equals
\* the content of the durable file, and both hold exactly the summaries of the
\* roster players whose aggregation call returned data.
C31_MapEqualsFile ==
    WarmCompleted =>
        /\ MapIsWarmed
        /\ cache_file.exists /\ ~cache_file.corrupt
        /\ cache_file.data = stats_cache

\* C31 (amended): the precompute map always holds exactly the summaries of the
\* warmed players; the durable file equals it when the write succeeded.
C31_MapEqualsFileWhenWritten ==
    WarmCompleted =>
        /\ MapIsWarmed
        /\ resp.wr = "ok" =>
            /\ cache_file.exists /\ ~cache_file.corrupt
            /\ cache_file.data = stats_cache

\* a warm-up with a written file that dropped an entry the map held before
C31_Witness ==
    /\ WarmCompleted
    /\ resp.wr = "ok"
    /\ stats_cache # EmptyMap
    /\ \E n \in DOMAIN resp.before : n \notin DOMAIN stats_cache

----------------------------------------------------------------------------
(* Properties of the bin indices of get_player_shots_binned (SpecLists) *)

\* the last response is a binned payload with bins
BinnedPayload ==
    resp.op = "get_player_shots_binned" /\ resp.body.bins # <<>>

\* C33: every returned bin has 0 <= x_bin < max(x_bins, 1) and
\* 0 <= y_bin < max(y_bins, 1), the bins of the points with the maximum
\* coordinate included.
C33_BinIndicesInRange ==
    BinnedPayload =>
        \A i \in 1..Len(resp.body.bins) :
            /\ 0 <= resp.body.bins[i].x_bin
            /\ resp.body.bins[i].x_bin < Max(resp.x_bins, 1)
            /\ 0 <= resp.body.bins[i].y_bin
            /\ resp.body.bins[i].y_bin < Max(resp.y_bins, 1)

\* what the handler does keep: the indices run from 0 to the bin count itself
C33_BinIndicesAtMostCount ==
    BinnedPayload =>
        \A i \in 1..Len(resp.body.bins) :
            /\ resp.body.bins[i].x_bin \in 0..Max(resp.x_bins, 1)
            /\ resp.body.bins[i].y_bin \in 0..Max(resp.y_bins, 1)

\* a payload over distinct x coordinates holds a bin numbered max(x_bins, 1)
C33_MaxPointPastLastBin ==
    /\ BinnedPayload
    /\ resp.tier = "rows"
    /\ resp.body.x_range[1] < resp.body.x_range[2]
    /\ \E i \in 1..Len(resp.body.bins) : resp.body.bins[i].x_bin = Max(resp.x_bins, 1)

\* C34: when all points share one x coordinate (one y coordinate), every
\* point is assigned to the last bin of that axis.
C34_ZeroWidthLastBin ==
    BinnedPayload =>
        /\ resp.body.x_range[1] = resp.body.x_range[2] =>
            \A i \in 1..Len(resp.body.bins) :
                resp.body.bins[i].x_bin = Max(resp.x_bins, 1) - 1
        /\ resp.body.y_range[1] = resp.body.y_range[2] =>
            \A i \in 1..Len(resp.body.bins) :
                resp.body.bins[i].y_bin = Max(resp.y_bins, 1) - 1

\* what the handler does: on an axis of zero width every point is in bin 0
C34_ZeroWidthFirstBin ==
    BinnedPayload =>
        /\ resp.body.x_range[1] = resp.body.x_range[2] =>
            \A i \in 1..Len(resp.body.bins) : resp.body.bins[i].x_bin = 0
        /\ resp.body.y_range[1] = resp.body.y_range[2] =>
            \A i \in 1..Len(resp.body.bins) : resp.body.bins[i].y_bin = 0

\* a payload of zero width on x, asked for more than one bin
C34_ZeroWidthSeveralBins ==
    /\ BinnedPayload
    /\ resp.tier = "rows"
    /\ resp.body.x_range[1] = resp.body.x_range[2]
    /\ resp.x_bins > 1

----------------------------------------------------------------------------
(* Properties of concurrent refreshes of the roster snapshot (SpecRefresh) *)

\* the threads that installed a refresh result, and the last of them
Writers == {t \in Readers : thr[t].wrote > 0}
LastWriter == CHOOSE t \in Writers : \A u \in Writers : thr[u].wrote <= thr[t].wrote

\* the snapshot the startup load leaves when it succeeds
StartupSnapshot == rpc_get_players_with_stats(tbl, <<>>, StartupMinShots, StartupLimit)

\* C32: concurrent refreshes install their results whole: once a thread has
\* installed one, the snapshot data is the data returned to the last thread
\* that installed, and a request that filters the snapshot filters either the
\* startup snapshot or the whole data returned to one refresh call.
C32_LastWriterWins ==
    /\ Writers # {} => players_cache.data = thr[LastWriter].result
    /\ (resp.op = "get_players" /\ resp.tier = "snapshot") =>
        /\ \/ resp.snapshot = StartupSnapshot
           \/ \E t \in Writers : resp.snapshot = thr[t].result
        /\ resp.body.players =
               roster_filter(resp.snapshot, thr[resp.by].req.search,
                             thr[resp.by].req.min_shots, thr[resp.by].req.limit)

\* both threads found the snapshot stale and installed different results,
\* both have finished, and the thread that wrote first filtered the result
\* of the other
C32_Witness ==
    /\ \A t \in Readers : thr[t].pc = "done" /\ thr[t].wrote > 0
    /\ thr["r1"].result # thr["r2"].result
    /\ resp.op = "get_players" /\ resp.tier = "snapshot"
    /\ resp.by # LastWriter
    /\ resp.snapshot = thr[LastWriter].result

----------------------------------------------------------------------------
(* Properties of the paging loops (SpecPaging) *)

\* C35: the paging loops do bounded work: the get_player fallback issues at
\* most 30 page queries and collects at most 60000 rows; get_player_shots
\* issues at most 50 page queries and returns at most min(limit, 50000) shots,
\* total being their number; and after a page shorter than page_size no
\* further query is issued.
C35_PagingBounded ==
    /\ thr.op = "get_player" => thr.queries <= 30 /\ thr.collected <= 60000
    /\ thr.op = "get_player_shots" =>
        /\ thr.queries <= 50
        /\ thr.collected <= Min(thr.limit, 50000)
    /\ resp.op = "get_player_shots" => resp.total = resp.shots
    /\ (thr.op # "none" /\ thr.queries > 0 /\ thr.rows < thr.page_size) =>
            thr.pc \in {"done", "answered"}

\* get_player_shots answered after 50 full pages with 50000 shots
C35_Witness ==
    /\ resp.op = "get_player_shots"
    /\ resp.queries = 50
    /\ resp.total = 50000

\* the get_player fallback answered after 30 full pages
C35_WitnessFallback ==
    /\ resp.op = "get_player"
    /\ resp.queries = 30
    /\ resp.total = 60000

\* a loop stopped by a short page before its cap
C35_WitnessShortPage ==
    /\ resp.op = "get_player_shots"
    /\ resp.queries = 5
    /\ resp.lastRows = 500
    /\ resp.total = 4500

----------------------------------------------------------------------------
(* Properties of the breakdown tables of _compute_stats_from_rows (SpecAgg) *)

\* the attempts, and the made counts, of a breakdown table added up
AttemptsOf(T) == SumSeq([i \in 1..Len(T) |-> T[i].attempts])
MadeOf(T) == SumSeq([i \in 1..Len(T) |-> T[i].made])

\* every entry of the table counts at least one attempt and no more made
\* shots than attempts
EntriesSound(T) ==
    \A i \in 1..Len(T) : T[i].attempts >= 1 /\ 0 <= T[i].made /\ T[i].made <= T[i].attempts

\* C36: in every summary the attempts of zones and of shot_types each add up
\* to total_shots and their made counts to made_shots, the attempts of seasons
\* add up to the number of rows with a year, and every breakdown entry has
\* 0 <= made <= attempts and attempts >= 1.
C36_BreakdownsAddUp ==
    (resp.op = "compute_stats_from_rows" /\ resp.rows # <<>>) =>
        LET R == resp.rows
            out == resp.out
        IN  /\ AttemptsOf(out.zones) = out.total_shots
            /\ AttemptsOf(out.shot_types) = out.total_shots
            /\ MadeOf(out.zones) = out.made_shots
            /\ MadeOf(out.shot_types) = out.made_shots
            /\ AttemptsOf(out.seasons) = Cardinality({i \in 1..Len(R) : R[i].year # <<>>})
            /\ EntriesSound(out.zones) /\ EntriesSound(out.shot_types)
            /\ EntriesSound(out.seasons) /\ EntriesSound(out.actions)

\* two rows of one zone and one shot type, one made and one missed, one of
\* them without a year
C36_Witness ==
    /\ resp.op = "compute_stats_from_rows"
    /\ Len(resp.rows) = 2
    /\ resp.rows[1].year # <<>> /\ resp.rows[2].year = <<>>
    /\ Len(resp.out.zones) = 1 /\ Len(resp.out.shot_types) = 1
    /\ resp.out.made_shots = 1
    /\ Len(resp.out.seasons) = 1

----------------------------------------------------------------------------
(* Properties of a warm-up whose roster call failed (SpecStats) *)

====
